---------------------------- MODULE Spec2Model ----------------------------
(***************************************************************************)
(* A model of the layout-aware field extraction of                         *)
(* AI/digitalizer/super_pipeline.py: text normalisation, the regular       *)
(* expressions the extraction uses, line grouping, anchor resolution,      *)
(* windowed collection, the field sanitizers and parsers, the checkbox     *)
(* resolution and the cross-page merge of process_document.                *)
(*                                                                         *)
(* A text is a sequence of one-character strings.  A regular expression is *)
(* a tree of records; Paths gives the ends of its matches at a position in *)
(* the order in which Python's backtracking matcher tries them.            *)
(***************************************************************************)
EXTENDS Integers, Sequences, FiniteSets, TLC

\* ------------------------------------------------------------------------
\* Characters
\* ------------------------------------------------------------------------

LowerSeq == <<"a","b","c","d","e","f","g","h","i","j","k","l","m",
              "n","o","p","q","r","s","t","u","v","w","x","y","z">>

UpperSeq == <<"A","B","C","D","E","F","G","H","I","J","K","L","M",
              "N","O","P","Q","R","S","T","U","V","W","X","Y","Z">>

Lower == {LowerSeq[k] : k \in 1..Len(LowerSeq)}

Upper == {UpperSeq[k] : k \in 1..Len(UpperSeq)}

Digit == {"0","1","2","3","4","5","6","7","8","9"}

\* \s : the blank, the line feed and the no-break space stand for Python's
\* whitespace class
WS == {" ", "\n", "nbsp"}

\* \w ; "alpha" is the Latin letter alpha of the unit pattern h[a<alpha>]
WordCh == Lower \cup Upper \cup Digit \cup {"_", "alpha"}

\* str.lower() on one character
ToLower(c) ==
    IF c \in Upper THEN LowerSeq[CHOOSE k \in 1..Len(UpperSeq) : UpperSeq[k] = c] ELSE c

ToUpper(c) ==
    IF c \in Lower THEN UpperSeq[CHOOSE k \in 1..Len(LowerSeq) : LowerSeq[k] = c] ELSE c

\* ------------------------------------------------------------------------
\* Sequence helpers
\* ------------------------------------------------------------------------

Min2(a, b) == IF a <= b THEN a ELSE b

Max2(a, b) == IF a >= b THEN a ELSE b

Abs(a) == IF a < 0 THEN 0 - a ELSE a

\* s[a..b] as Python's s[a-1:b], empty when a > b
Slice(s, a, b) == IF a > b THEN <<>> ELSE SubSeq(s, a, b)

RECURSIVE Flatten(_)
Flatten(ss) == IF ss = <<>> THEN <<>> ELSE Head(ss) \o Flatten(Tail(ss))

SetMin(S) == CHOOSE x \in S : \A y \in S : x <= y

SetMax(S) == CHOOSE x \in S : \A y \in S : x >= y

\* the least element of S, or d when S is empty
MinOr(S, d) == IF S = {} THEN d ELSE SetMin(S)

\* the greatest element of S, or d when S is empty
MaxOr(S, d) == IF S = {} THEN d ELSE SetMax(S)

\* s.lstrip(chars): without the leading characters that lie in cs
lstripChars(s, cs) == Slice(s, MinOr({k \in 1..Len(s) : s[k] \notin cs}, Len(s) + 1), Len(s))

\* s.rstrip(chars)
rstripChars(s, cs) == Slice(s, 1, MaxOr({k \in 1..Len(s) : s[k] \notin cs}, 0))

stripChars(s, cs) == rstripChars(lstripChars(s, cs), cs)

\* str.strip(): leading and trailing whitespace removed
lstrip(s) == lstripChars(s, WS)

rstrip(s) == rstripChars(s, WS)

strip(s) == rstrip(lstrip(s))

\* sep.join(parts)
RECURSIVE Join(_, _)
Join(parts, sep) ==
    IF parts = <<>> THEN <<>>
    ELSE IF Len(parts) = 1 THEN parts[1]
    ELSE parts[1] \o sep \o Join(Tail(parts), sep)

\* str.split(): the maximal runs of non-whitespace characters
RECURSIVE SplitWs(_)
SplitWs(s) ==
    LET Words(t) ==
            IF t = <<>> THEN <<>>
            ELSE LET Cut(end) == <<SubSeq(t, 1, end - 1)>> \o SplitWs(Slice(t, end, Len(t)))
                 IN  Cut(MinOr({k \in 1..Len(t) : t[k] \in WS}, Len(t) + 1))
    IN  Words(lstrip(s))

split(s) == SplitWs(s)

\* ------------------------------------------------------------------------
\* Regular expressions (Python re, backtracking order)
\* ------------------------------------------------------------------------

\* a character class repeated lo..hi times, greedy
Cls(cs, lo, hi) ==
    [t |-> "cls", cs |-> cs, lo |-> lo, hi |-> hi, lazy |-> FALSE, neg |-> FALSE]

\* the same, non-greedy ( {lo,hi}? and +? )
ClsLazy(cs, lo, hi) ==
    [t |-> "cls", cs |-> cs, lo |-> lo, hi |-> hi, lazy |-> TRUE, neg |-> FALSE]

\* a negated class [^...] repeated lo..hi times, greedy
NotCls(cs, lo, hi) ==
    [t |-> "cls", cs |-> cs, lo |-> lo, hi |-> hi, lazy |-> FALSE, neg |-> TRUE]

\* an upper limit standing for "no limit": longer than any text of the model
Unbounded == 1000

One(cs) == Cls(cs, 1, 1)

Star(cs) == Cls(cs, 0, Unbounded)

Plus(cs) == Cls(cs, 1, Unbounded)

Opt1(cs) == Cls(cs, 0, 1)

Cat(xs) == [t |-> "seq", xs |-> xs]

Alt(xs) == [t |-> "alt", xs |-> xs]

\* ( ... )? of a group
OptG(x) == [t |-> "opt", x |-> x]

\* capturing group number n
Grp(n, x) == [t |-> "grp", n |-> n, x |-> x]

\* \b
WB == [t |-> "wb"]

\* $
EOS == [t |-> "eos"]

\* ^
BOS == [t |-> "bos"]

\* a literal word
Lit(w) == [t |-> "lit", w |-> w]

NoCaps == << <<0, 0>>, <<0, 0>> >>

Path(e, g) == [e |-> e, g |-> g]

\* the captures of q laid over those of p
MergeCaps(p, q) == [n \in 1..2 |-> IF q[n] # <<0, 0>> THEN q[n] ELSE p[n]]

\* c is in the class cs; with re.I also when its other case is
InCls(c, cs, ic) == c \in cs \/ (ic /\ (ToLower(c) \in cs \/ ToUpper(c) \in cs))

\* c is matched by the class node n
InNode(c, n, ic) == IF n.neg THEN ~InCls(c, n.cs, ic) ELSE InCls(c, n.cs, ic)

\* the number of characters from position i on that n matches, at most hi
RunLen(s, i, n, ic, hi) ==
    Min2(hi, MinOr({j \in i..Len(s) : ~InNode(s[j], n, ic)}, Len(s) + 1) - i)

\* the literal w stands at position i of s
LitAt(s, i, w, ic) ==
    /\ i + Len(w) - 1 <= Len(s)
    /\ \A k \in 1..Len(w) : InCls(s[i + k - 1], {w[k]}, ic)

IsWordAt(s, i) == i >= 1 /\ i <= Len(s) /\ s[i] \in WordCh

\* \b holds between s[i-1] and s[i]
AtWordBoundary(s, i) == IsWordAt(s, i - 1) # IsWordAt(s, i)

\* $ holds at the end and before a final line feed
AtEnd(s, i) == i = Len(s) + 1 \/ (i = Len(s) /\ s[i] = "\n")

\* The matches of node n in s from position i, in the order the matcher
\* tries them: each is the position after the match and the groups it set.
RECURSIVE Paths(_, _, _, _)
RECURSIVE SeqPaths(_, _, _, _, _)
RECURSIVE AltPaths(_, _, _, _, _)
RECURSIVE Continue(_, _, _, _, _, _)
Paths(n, s, i, ic) ==
    CASE n.t = "cls" ->
            LET Runs(run) ==
                    IF run < n.lo THEN <<>>
                    ELSE [j \in 1..(run - n.lo + 1) |->
                            Path(IF n.lazy THEN i + n.lo + j - 1 ELSE i + run - j + 1, NoCaps)]
            IN  Runs(RunLen(s, i, n, ic, n.hi))
      [] n.t = "lit" -> IF LitAt(s, i, n.w, ic) THEN <<Path(i + Len(n.w), NoCaps)>> ELSE <<>>
      [] n.t = "wb"  -> IF AtWordBoundary(s, i) THEN <<Path(i, NoCaps)>> ELSE <<>>
      [] n.t = "eos" -> IF AtEnd(s, i) THEN <<Path(i, NoCaps)>> ELSE <<>>
      [] n.t = "bos" -> IF i = 1 THEN <<Path(i, NoCaps)>> ELSE <<>>
      [] n.t = "seq" -> SeqPaths(n.xs, 1, s, i, ic)
      [] n.t = "alt" -> AltPaths(n.xs, 1, s, i, ic)
      [] n.t = "opt" -> Paths(n.x, s, i, ic) \o <<Path(i, NoCaps)>>
      [] n.t = "grp" ->
            LET Captured(ps) ==
                    [j \in 1..Len(ps) |->
                        Path(ps[j].e, [m \in 1..2 |-> IF m = n.n THEN <<i, ps[j].e>> ELSE ps[j].g[m]])]
            IN  Captured(Paths(n.x, s, i, ic))

SeqPaths(xs, k, s, i, ic) ==
    IF k > Len(xs) THEN <<Path(i, NoCaps)>>
    ELSE Continue(Paths(xs[k], s, i, ic), xs, k, s, ic, 1)

\* every match of xs[k] continued by the matches of xs[k+1..]
Continue(ps, xs, k, s, ic, j) ==
    IF j > Len(ps) THEN <<>>
    ELSE LET Merged(rest) ==
                 [m \in 1..Len(rest) |-> Path(rest[m].e, MergeCaps(ps[j].g, rest[m].g))]
         IN  Merged(SeqPaths(xs, k + 1, s, ps[j].e, ic)) \o Continue(ps, xs, k, s, ic, j + 1)

AltPaths(xs, k, s, i, ic) ==
    IF k > Len(xs) THEN <<>>
    ELSE Paths(xs[k], s, i, ic) \o AltPaths(xs, k + 1, s, i, ic)

NoMatch == [b |-> 0, e |-> 0, g |-> NoCaps]

\* pattern.match at position i: the first path, or NoMatch
MatchAt(n, s, i, ic) ==
    LET First(ps) == IF ps = <<>> THEN NoMatch ELSE [b |-> i, e |-> ps[1].e, g |-> ps[1].g]
    IN  First(Paths(n, s, i, ic))

\* re.search from position i on: the leftmost match
SearchFrom(n, s, i, ic) ==
    LET Leftmost(starts) == IF starts = {} THEN NoMatch ELSE MatchAt(n, s, SetMin(starts), ic)
    IN  Leftmost({j \in i..(Len(s) + 1) : Paths(n, s, j, ic) # <<>>})

Search(n, s, ic) == SearchFrom(n, s, 1, ic)

\* m.group(k)
Group(s, m, k) == Slice(s, m.g[k][1], m.g[k][2] - 1)

\* re.sub(n, repl, s) for a constant replacement; an empty match moves on
\* by one character
RECURSIVE SubFrom(_, _, _, _, _)
SubFrom(n, repl, s, i, ic) ==
    LET Replaced(m) ==
            IF m = NoMatch THEN Slice(s, i, Len(s))
            ELSE Slice(s, i, m.b - 1) \o repl
                 \o (IF m.e > Len(s) THEN <<>>
                     ELSE IF m.e = m.b THEN <<s[m.b]>> \o SubFrom(n, repl, s, m.b + 1, ic)
                     ELSE SubFrom(n, repl, s, m.e, ic))
    IN  Replaced(SearchFrom(n, s, i, ic))

Sub(n, repl, s, ic) == SubFrom(n, repl, s, 1, ic)

\* re.split(n, s) for a pattern without groups that matches no empty string
RECURSIVE SplitFrom(_, _, _, _)
SplitFrom(n, s, i, ic) ==
    LET Pieces(m) ==
            IF m = NoMatch THEN <<Slice(s, i, Len(s))>>
            ELSE <<Slice(s, i, m.b - 1)>> \o SplitFrom(n, s, m.e, ic)
    IN  Pieces(SearchFrom(n, s, i, ic))

Split(n, s, ic) == SplitFrom(n, s, 1, ic)

\* re.split(n, s)[0] for a pattern that matches no empty string
SplitHead(n, s, ic) ==
    LET Before(m) == IF m = NoMatch THEN s ELSE Slice(s, 1, m.b - 1)
    IN  Before(Search(n, s, ic))

\* pattern.finditer(s): the matches from left to right, none overlapping
RECURSIVE FindIterFrom(_, _, _, _)
FindIterFrom(n, s, i, ic) ==
    LET Found(m) ==
            IF m = NoMatch THEN <<>>
            ELSE <<m>> \o (IF m.e > Len(s) THEN <<>>
                           ELSE FindIterFrom(n, s, IF m.e = m.b THEN m.e + 1 ELSE m.e, ic))
    IN  Found(SearchFrom(n, s, i, ic))

FindIter(n, s, ic) == FindIterFrom(n, s, 1, ic)

\* w in s, for texts
Contains(s, w) == \E i \in 1..(Len(s) - Len(w) + 1) : SubSeq(s, i, i + Len(w) - 1) = w

\* ------------------------------------------------------------------------
\* Words of the patterns
\* ------------------------------------------------------------------------

w_house == <<"h","o","u","s","e">>

w_address == <<"a","d","d","r","e","s","s">>

w_village == <<"v","i","l","l","a","g","e">>

w_district == <<"d","i","s","t","r","i","c","t">>

w_taluka == <<"t","a","l","u","k","a">>

w_panchayat == <<"p","a","n","c","h","a","y","a","t">>

w_gp == <<"g","p">>

w_name_of == <<"n","a","m","e"," ","o","f">>

w_gram == <<"g","r","a","m">>

w_nature_of_claim == <<"n","a","t","u","r","e"," ","o","f"," ","c","l","a","i","m">>

w_evidence == <<"e","v","i","d","e","n","c","e">>

w_extent_of == <<"e","x","t","e","n","t"," ","o","f">>

w_habitation == <<"h","a","b","i","t","a","t","i","o","n">>

w_self == <<"s","e","l","f">>

w_cultivation == <<"c","u","l","t","i","v","a","t","i","o","n">>

w_signature == <<"s","i","g","n","a","t","u","r","e">>

w_thumb_impression == <<"t","h","u","m","b"," ","i","m","p","r","e","s","s","i","o","n">>

w_scheduled == <<"s","c","h","e","d","u","l","e","d">>

w_other == <<"o","t","h","e","r">>

w_traditional == <<"t","r","a","d","i","t","i","o","n","a","l">>

w_teh == <<"t","e","h">>

w_il == <<"i","l">>

w_patta == <<"p","a","t","t","a">>

w_lease == <<"l","e","a","s","e">>

w_grant == <<"g","r","a","n","t">>

\* ------------------------------------------------------------------------
\* normalize
\* ------------------------------------------------------------------------

\* Characters outside ASCII are written by name.
DevanagariDigits == <<"dev0","dev1","dev2","dev3","dev4","dev5","dev6","dev7","dev8","dev9">>

AsciiDigits == <<"0","1","2","3","4","5","6","7","8","9">>

\* s.translate(DEVANAGARI_DIGITS_TBL) on one character
TranslateDigit(c) ==
    IF \E k \in 1..10 : DevanagariDigits[k] = c
    THEN AsciiDigits[CHOOSE k \in 1..10 : DevanagariDigits[k] = c]
    ELSE c

\* unicodedata.normalize("NFKC", s) on one character: the no-break space
\* is the compatibility character of the model
Nfkc(c) == IF c = "nbsp" THEN " " ELSE c

\* the dash and quote replacements
FoldPunct(c) ==
    CASE c \in {"endash", "emdash"} -> "-"
      [] c \in {"rsquo", "lsquo"}   -> "'"
      [] c \in {"rdquo", "ldquo"}   -> "\""
      [] OTHER                      -> c

ZeroWidth == {"zwsp", "zwnj", "zwj"}

\* re.sub(r"\s+", " ", s): one blank for every run of whitespace
CollapseWs(s) ==
    LET marked == [k \in 1..Len(s) |->
                     IF s[k] \notin WS THEN s[k]
                     ELSE IF k > 1 /\ s[k - 1] \in WS THEN "drop" ELSE " "]
    IN  SelectSeq(marked, LAMBDA c : c # "drop")

normalize(s) ==
    LET mapped == [k \in 1..Len(s) |-> ToLower(FoldPunct(Nfkc(TranslateDigit(s[k]))))]
        kept   == SelectSeq(mapped, LAMBDA c : c \notin ZeroWidth)
    IN  strip(CollapseWs(kept))

\* ------------------------------------------------------------------------
\* Stop labels
\* ------------------------------------------------------------------------

STOP_LABEL_PAT ==
    Cat(<<WB,
          Grp(1, Alt(<<Lit(w_name_of), Lit(w_address), Lit(w_village),
                       Cat(<<Lit(w_gram), Star(WS), Lit(w_panchayat)>>),
                       Lit(w_gp),
                       Cat(<<Lit(w_teh), Opt1({"s"}), Lit(w_il)>>),
                       Lit(w_taluka), Lit(w_district), Lit(w_scheduled),
                       Cat(<<Lit(w_other), Plus(WS), Lit(w_traditional)>>),
                       Lit(w_nature_of_claim), Lit(w_evidence), Lit(w_extent_of),
                       Lit(w_habitation),
                       Cat(<<Lit(w_self), Star({"-"} \cup WS), Lit(w_cultivation)>>),
                       Lit(w_signature), Lit(w_thumb_impression)>>)),
          WB>>)

\* the labels matched in their lower-case spelling only
cut_at_next_label_CaseSensitive(t) == strip(SplitHead(STOP_LABEL_PAT, t, FALSE))

cut_at_next_label(t) == strip(SplitHead(STOP_LABEL_PAT, t, TRUE))

\* ------------------------------------------------------------------------
\* Token geometry
\* ------------------------------------------------------------------------

quad_from_xywh(x, y, w, h) == << <<x, y>>, <<x + w, y>>, <<x + w, y + h>>, <<x, y + h>> >>

SeqMin(f) == CHOOSE v \in {f[k] : k \in DOMAIN f} : \A k \in DOMAIN f : v <= f[k]

SeqMax(f) == CHOOSE v \in {f[k] : k \in DOMAIN f} : \A k \in DOMAIN f : v >= f[k]

\* <<x1, y1, x2, y2>>
rect_from_bbox(bbox) ==
    LET xs == [k \in DOMAIN bbox |-> bbox[k][1]]
        ys == [k \in DOMAIN bbox |-> bbox[k][2]]
    IN  <<SeqMin(xs), SeqMin(ys), SeqMax(xs), SeqMax(ys)>>

\* an OCR item
Item(text_, conf, x, y, w, h) ==
    [text |-> text_, confidence |-> conf, bbox |-> quad_from_xywh(x, y, w, h)]

\* ------------------------------------------------------------------------
\* Line grouping
\* ------------------------------------------------------------------------

\* sorted(xs, key): a stable insertion sort of <<key, value>> pairs
RECURSIVE InsertByKey(_, _)
InsertByKey(sorted, p) ==
    IF sorted = <<>> THEN <<p>>
    ELSE IF sorted[Len(sorted)][1] <= p[1] THEN Append(sorted, p)
    ELSE Append(InsertByKey(SubSeq(sorted, 1, Len(sorted) - 1), p), sorted[Len(sorted)])

RECURSIVE SortPairs(_, _)
SortPairs(ps, k) ==
    IF k = 0 THEN <<>> ELSE InsertByKey(SortPairs(ps, k - 1), ps[k])

\* the values of a list of <<key, value>> pairs
Values(ps) == [k \in 1..Len(ps) |-> ps[k][2]]

SortedByKey(ps) == Values(SortPairs(ps, Len(ps)))

\* int(np.median(vals)) of non-negative integers
Median(vals) ==
    LET Middle(s, n) ==
            IF n % 2 = 1 THEN s[(n + 1) \div 2]
            ELSE (s[n \div 2] + s[n \div 2 + 1]) \div 2
    IN  Middle(SortedByKey([k \in 1..Len(vals) |-> <<vals[k], vals[k]>>]), Len(vals))

\* int(0.5 * (y1 + y2))
mid_y(it) == LET Mid(r) == (r[2] + r[4]) \div 2 IN Mid(rect_from_bbox(it.bbox))

left_x(it) == rect_from_bbox(it.bbox)[1]

YTolMin == 10

\* max(10.0, int(page_h * y_tol_ratio)) with y_tol_ratio = 0.02
y_tol(page_h) == Max2(YTolMin, (page_h * 2) \div 100)

\* the first line within the tolerance of y, or 0
FirstFit(lines, y, tol) ==
    IF \E k \in 1..Len(lines) : Abs(lines[k].y - y) <= tol
    THEN CHOOSE k \in 1..Len(lines) :
            /\ Abs(lines[k].y - y) <= tol
            /\ \A j \in 1..(k - 1) : Abs(lines[j].y - y) > tol
    ELSE 0

\* a token that fits a line takes the place of the line's tokens
PlaceItem_Overwrite(lines, it, tol) ==
    LET Place(y) ==
            IF \E k \in 1..Len(lines) : Abs(lines[k].y - y) <= tol
            THEN [k \in 1..Len(lines) |->
                     IF Abs(lines[k].y - y) <= tol
                     THEN [y |-> y, y_vals |-> <<y>>, items |-> <<it>>] ELSE lines[k]]
            ELSE Append(lines, [y |-> y, y_vals |-> <<y>>, items |-> <<it>>])
    IN  Place((rect_from_bbox(it.bbox)[2] + rect_from_bbox(it.bbox)[4]) \div 2)

\* one pass of the loop over the sorted items
PlaceItem(lines, it, tol) ==
    LET Place(y, k) ==
            IF k = 0
            THEN Append(lines, [y |-> y, y_vals |-> <<y>>, items |-> <<it>>])
            ELSE [lines EXCEPT ![k] =
                    [y      |-> Median(Append(lines[k].y_vals, y)),
                     y_vals |-> Append(lines[k].y_vals, y),
                     items  |-> Append(lines[k].items, it)]]
    IN  Place(mid_y(it), FirstFit(lines, mid_y(it), tol))

RECURSIVE PlaceAll(_, _, _)
PlaceAll(sorted, k, tol) ==
    IF k = 0 THEN <<>> ELSE PlaceItem(PlaceAll(sorted, k - 1, tol), sorted[k], tol)

SortLineItems(ln) ==
    [ln EXCEPT !.items = SortedByKey([k \in 1..Len(ln.items) |-> <<left_x(ln.items[k]), ln.items[k]>>])]

\* the items taken in OCR order, and the lines left as they fill
group_by_lines_Unsorted(items, page_h) ==
    IF items = <<>> THEN <<>>
    ELSE PlaceAll(items, Len(items), y_tol(page_h))

\* the final loop over the lines
SortLines(lines) == [k \in 1..Len(lines) |-> SortLineItems(lines[k])]

group_by_lines(items, page_h) ==
    IF items = <<>> THEN <<>>
    ELSE SortLines(PlaceAll(SortedByKey([k \in 1..Len(items) |-> <<mid_y(items[k]), items[k]>>]),
                            Len(items), y_tol(page_h)))

join_items_text(items) ==
    strip(Join([k \in 1..Len(items) |-> items[k].text], <<" ">>))

\* ------------------------------------------------------------------------
\* Anchors
\* ------------------------------------------------------------------------

w_name_s_ == <<"n","a","m","e","(","s",")">>

w_of == <<"o","f">>

w_holder_s_ == <<"h","o","l","d","e","r","(","s",")">>

w_sh_ == <<"s","h",".">>

w_nek == <<"n","e","k">>

w_ram == <<"r","a","m">>

w_name == <<"n","a","m","e">>

w_spouse == <<"s","p","o","u","s","e">>

w_father == <<"f","a","t","h","e","r">>

w_mother == <<"m","o","t","h","e","r">>

w_dependents == <<"d","e","p","e","n","d","e","n","t","s">>

w_4_ == <<"4",".">>

w_sabha == <<"s","a","b","h","a">>

w_tehsil == <<"t","e","h","s","i","l">>

w_8_ == <<"8",".">>

w_tribe == <<"t","r","i","b","e">>

w_forest == <<"f","o","r","e","s","t">>

w_dweller == <<"d","w","e","l","l","e","r">>

w_10_ == <<"1","0",".">>

w_name_of_other_members == <<"n","a","m","e"," ","o","f"," ","o","t","h","e","r"," ","m","e","m","b","e","r","s">>

w_yes == <<"y","e","s">>

w_no == <<"n","o">>

ANCHORS ==
    [claimant_name   |-> <<Cat(<<Lit(w_name_s_), Star(WS), Lit(w_of), Star(WS), Lit(w_holder_s_)>>),
                           Cat(<<Lit(w_sh_), Star(WS), Lit(w_nek), Star(WS), Lit(w_ram)>>)>>,
     spouse_name     |-> <<Cat(<<Lit(w_name), Star(WS), Lit(w_of), Star(WS), Lit(w_spouse)>>)>>,
     father_mother   |-> <<Cat(<<Lit(w_name), Star(WS), Lit(w_of), Star(WS), Lit(w_father),
                                 Star(WS), One({"/"}), Star(WS), Lit(w_mother)>>)>>,
     dependents      |-> <<Cat(<<Lit(w_name), Star(WS), Lit(w_of), Star(WS), Lit(w_dependents)>>)>>,
     address         |-> <<Cat(<<WB, Lit(w_4_), Star(WS), Lit(w_address), WB>>)>>,
     village         |-> <<Cat(<<Lit(w_village), Star(WS), One({"/"}), Star(WS), Lit(w_gram),
                                 Star(WS), Lit(w_sabha)>>)>>,
     gram_panchayat  |-> <<Cat(<<Lit(w_gram), Star(WS), Lit(w_panchayat), WB>>)>>,
     tehsil_taluka   |-> <<Cat(<<Lit(w_tehsil), Star(WS), One({"/"}), Star(WS), Lit(w_taluka)>>)>>,
     district        |-> <<Cat(<<WB, Lit(w_8_), Star(WS), Lit(w_district), WB>>)>>,
     scheduled_tribe |-> <<Cat(<<Lit(w_scheduled), Star(WS), Lit(w_tribe)>>)>>,
     otfd            |-> <<Cat(<<Lit(w_other), Star(WS), Lit(w_traditional), Star(WS),
                                 Lit(w_forest), Star(WS), Lit(w_dweller)>>)>>,
     other_members   |-> <<Cat(<<WB, Lit(w_10_), Star(WS), Lit(w_name_of_other_members), WB>>),
                           Cat(<<WB, Lit(w_name_of_other_members), WB>>)>>]

\* Python values that may be None carry their type; the field of the value is
\* named after the type, so that values of two types are never compared
None == [ty |-> "none", none |-> TRUE]

Str(s) == [ty |-> "str", str |-> s]

Bool(b) == [ty |-> "bool", bool |-> b]

List(xs) == [ty |-> "list", list |-> xs]

\* the text is kept as it is, empty or not
OrNone_Keep(s) == Str(s)

\* x or None, for a text x
OrNone(s) == IF s = <<>> THEN None ELSE Str(s)

\* re.search(pat, t, flags=re.I) for some pat of the list
MatchesAny(patterns, t) ==
    \E k \in 1..Len(patterns) : Search(patterns[k], t, TRUE) # NoMatch

\* the first item whose normalized text matches a pattern, or None
RECURSIVE find_anchor_from(_, _, _)
find_anchor_from(items, patterns, k) ==
    IF k > Len(items) THEN None
    ELSE IF MatchesAny(patterns, normalize(items[k].text)) THEN items[k]
    ELSE find_anchor_from(items, patterns, k + 1)

\* the last matching item instead of the first
find_anchor_item_Last(items, patterns) ==
    LET hits == {k \in 1..Len(items) : MatchesAny(patterns, normalize(items[k].text))}
    IN  IF hits = {} THEN None ELSE items[SetMax(hits)]

find_anchor_item(items, patterns) == find_anchor_from(items, patterns, 1)

\* ------------------------------------------------------------------------
\* Windowed collection
\* ------------------------------------------------------------------------

\* the index of the line nearest to the anchor's centre (the first of equals);
\* 0 when there is no line
NearestLine(lines, am) ==
    IF lines = <<>> THEN 0
    ELSE CHOOSE i \in 1..Len(lines) :
            /\ \A j \in 1..Len(lines) : Abs(lines[i].y - am) <= Abs(lines[j].y - am)
            /\ \A j \in 1..(i - 1) : Abs(lines[j].y - am) > Abs(lines[i].y - am)

XGap == 6

\* page_w * right_ratio with right_ratio = 0.45, rounded down
RightReach(page_w) == (page_w * 45) \div 100

\* the items of the line whose left edge lies in the window right of the anchor
CollectInLine(ln, ax2, x_gap, max_x) ==
    SelectSeq(ln.items, LAMBDA it : left_x(it) > ax2 + x_gap /\ left_x(it) <= max_x)

\* the items right of the anchor in line idx and in the next line together
RightOf_Both(lines, idx, ax2, max_x) ==
    IF idx = 0 THEN <<>>
    ELSE IF idx + 1 <= Len(lines)
    THEN CollectInLine(lines[idx], ax2, XGap, max_x) \o CollectInLine(lines[idx + 1], ax2, XGap, max_x)
    ELSE CollectInLine(lines[idx], ax2, XGap, max_x)

\* the items right of the anchor in line idx, or in the next line when line
\* idx has none
RightOf(lines, idx, ax2, max_x) ==
    IF idx = 0 THEN <<>>
    ELSE IF idx + 1 <= Len(lines) /\ CollectInLine(lines[idx], ax2, XGap, max_x) = <<>>
    THEN CollectInLine(lines[idx + 1], ax2, XGap, max_x)
    ELSE CollectInLine(lines[idx], ax2, XGap, max_x)

\* the anchor's line among the lines
RightOfAnchor(lines, anchor_rect, page_w) ==
    RightOf(lines, NearestLine(lines, (anchor_rect[2] + anchor_rect[4]) \div 2),
            anchor_rect[3], anchor_rect[3] + Max2(XGap, RightReach(page_w)))

collect_right_bounded(items, anchor_rect, page_w, page_h) ==
    RightOfAnchor(group_by_lines(items, page_h), anchor_rect, page_w)

XPadBelow == 22

LinesDown == 2

\* int(page_w * 0.18)
ColumnReach(page_w) == (page_w * 18) \div 100

\* (x1 + x2) // 2
center_x(it) == LET Mid(r) == (r[1] + r[3]) \div 2 IN Mid(rect_from_bbox(it.bbox))

Between(lo, v, hi) == lo <= v /\ v <= hi

RECURSIVE BelowFrom(_, _, _, _, _)
BelowFrom(lines, idx, j, xL, xR) ==
    IF j > LinesDown \/ idx + j > Len(lines) THEN <<>>
    ELSE SelectSeq(lines[idx + j].items, LAMBDA it : Between(xL, center_x(it), xR))
         \o BelowFrom(lines, idx, j + 1, xL, xR)

\* the items of the column in the lines below the anchor's line
BelowAnchor(lines, idx, anchor_rect, page_w) ==
    IF idx = 0 THEN <<>>
    ELSE BelowFrom(lines, idx, 1, Max2(0, anchor_rect[1] - XPadBelow),
                   Min2(page_w - 1, anchor_rect[3] + ColumnReach(page_w)))

BelowInLines(lines, anchor_rect, page_w) ==
    BelowAnchor(lines, NearestLine(lines, (anchor_rect[2] + anchor_rect[4]) \div 2),
                anchor_rect, page_w)

collect_below_same_column(items, anchor_rect, page_w, page_h) ==
    BelowInLines(group_by_lines(items, page_h), anchor_rect, page_w)

\* ------------------------------------------------------------------------
\* Sanitizers
\* ------------------------------------------------------------------------

PersonBlacklistPat ==
    Cat(<<WB,
          Grp(1, Alt(<<Lit(w_house), Lit(w_address), Lit(w_village), Lit(w_district),
                       Lit(w_taluka),
                       Cat(<<Lit(w_teh), Opt1({"s"}), Lit(w_il)>>),
                       Lit(w_panchayat), Lit(w_gp),
                       Cat(<<Lit(w_patta), Opt1({"s"})>>),
                       Cat(<<Lit(w_lease), Opt1({"s"}), Opt1({"l"})>>),
                       Cat(<<Lit(w_grant), Opt1({"s"})>>)>>)),
          WB>>)

\* [0-9\[\]\(\)\/:,]+
PersonStripPat == Plus(Digit \cup {"[", "]", "(", ")", "/", ":", ","})

WsRunPat == Plus(WS)

\* parts[:n]
FirstN(parts, n) == SubSeq(parts, 1, Min2(n, Len(parts)))

PersonKeep == 3

\* " ".join(parts[:n]) if parts else ""
JoinFirst(parts, n) == IF parts # <<>> THEN Join(FirstN(parts, n), <<" ">>) ELSE <<>>

sanitize_person_value(s) ==
    LET t0 == normalize(s)
        t1 == Sub(PersonBlacklistPat, <<" ">>, t0, FALSE)
        t2 == Sub(PersonStripPat, <<" ">>, t1, FALSE)
        t3 == strip(Sub(WsRunPat, <<" ">>, t2, FALSE))
    IN  JoinFirst(split(t3), PersonKeep)

w_sample == <<"s","a","m","p","l","e">>

w_and == <<"a","n","d">>

\* [^a-z0-9 ,/]
AddressStripPat == NotCls(Lower \cup Digit \cup {" ", ",", "/"}, 1, 1)

sanitize_address_value(s) ==
    LET t0 == normalize(s)
        t1 == Sub(AddressStripPat, <<" ">>, t0, FALSE)
    IN  stripChars(Sub(WsRunPat, <<" ">>, t1, FALSE), {" ", ","})

\* the tokens of s without immediate repetitions
RECURSIVE DropRepeats(_)
DropRepeats(toks) ==
    IF Len(toks) <= 1 THEN toks
    ELSE LET Add(init) ==
                 IF init[Len(init)] = toks[Len(toks)] THEN init ELSE Append(init, toks[Len(toks)])
         IN  Add(DropRepeats(SubSeq(toks, 1, Len(toks) - 1)))

dedupe_tokens(s) == Join(DropRepeats(split(s)), <<" ">>)

\* . (any character but the line feed)
Dot == {"\n"}

\* \b(gram\s*panchayat|gp)\b.*$
VillageTailPat ==
    Cat(<<WB, Grp(1, Alt(<<Cat(<<Lit(w_gram), Star(WS), Lit(w_panchayat)>>), Lit(w_gp)>>)), WB,
          NotCls(Dot, 0, Unbounded), EOS>>)

VillageKeep == 3

\* " ".join(parts[:n]) if parts else None
JoinFirstOrNone(parts, n) == IF parts # <<>> THEN Str(Join(FirstN(parts, n), <<" ">>)) ELSE None

sanitize_village_value(s) ==
    LET t0 == normalize(s)
        t1 == strip(Sub(VillageTailPat, <<>>, t0, FALSE))
    IN  JoinFirstOrNone(split(dedupe_tokens(t1)), VillageKeep)

GpPhraseMax == 24

\* \b([a-z][a-z\s]{0,24})\s+gp\b
GpPat ==
    Cat(<<WB, Grp(1, Cat(<<One(Lower), Cls(Lower \cup WS, 0, GpPhraseMax)>>)),
          Plus(WS), Lit(w_gp), WB>>)

\* \b([a-z][a-z\s]{0,24})\s+gram\s*panchayat\b
GramPanchayatPat ==
    Cat(<<WB, Grp(1, Cat(<<One(Lower), Cls(Lower \cup WS, 0, GpPhraseMax)>>)),
          Plus(WS), Lit(w_gram), Star(WS), Lit(w_panchayat), WB>>)

GpBaseKeep == 2

\* the value for the normalized text t, the matches of the two patterns and
\* the first tokens of t
GpValue(t, m1, m2, base) ==
    IF m1 # NoMatch THEN Str(dedupe_tokens(strip(strip(Group(t, m1, 1)) \o <<" ">> \o w_gp)))
    ELSE IF m2 # NoMatch
    THEN Str(dedupe_tokens(strip(strip(Group(t, m2, 1)) \o <<" ">> \o w_gp)))
    ELSE IF base # <<>> THEN Str(dedupe_tokens(strip(base \o <<" ">> \o w_gp)))
    ELSE None

GpOfText(t) ==
    GpValue(t, Search(GpPat, t, FALSE), Search(GramPanchayatPat, t, FALSE),
            strip(Join(FirstN(split(t), GpBaseKeep), <<" ">>)))

sanitize_gp_value(s) == GpOfText(normalize(s))

SuffixPhraseMax == 40

\* \b([a-z][a-z\s]{0,40}?)\s+<suffix>\b
SuffixPat(suffix) ==
    Cat(<<WB, Grp(1, Cat(<<One(Lower), ClsLazy(Lower \cup WS, 0, SuffixPhraseMax)>>)),
          Plus(WS), Lit(suffix), WB>>)

\* the value for the normalized text t, the match of the pattern and the
\* tokens of t
SuffixValue(t, m, parts, suffix, keep_tokens) ==
    IF m # NoMatch
    THEN LET phrase == strip(strip(Group(t, m, 1)) \o <<" ">> \o suffix)
         IN  Str(Join(FirstN(split(phrase), keep_tokens), <<" ">>))
    ELSE IF Len(parts) = 1 /\ parts[1] = w_sample THEN Str(w_sample \o <<" ">> \o suffix)
    ELSE IF parts # <<>> THEN Str(Join(FirstN(parts, keep_tokens), <<" ">>))
    ELSE None

SuffixOfText(t, suffix, keep_tokens) ==
    SuffixValue(t, Search(SuffixPat(suffix), t, FALSE), split(t), suffix, keep_tokens)

sanitize_required_suffix(s, suffix, keep_tokens) == SuffixOfText(normalize(s), suffix, keep_tokens)

\* \s*/\s*|\s*\|\s*|\s{2,}|,| and
ParentSplitPat ==
    Alt(<<Cat(<<Star(WS), One({"/"}), Star(WS)>>),
          Cat(<<Star(WS), One({"|"}), Star(WS)>>),
          Cls(WS, 2, Unbounded),
          One({","}),
          Lit(<<" ">> \o w_and \o <<" ">>)>>)

ParentBlacklist ==
    <<w_address, w_house, w_village, w_district, w_taluka, w_tehsil, w_panchayat, w_gp,
      w_patta \o <<"s">>, w_lease, w_grant \o <<"s">>>>

\* the name, or None when it holds a word of the list
DropIfBlacklisted(name) ==
    IF name # None /\ \E k \in 1..Len(ParentBlacklist) : Contains(name.str, ParentBlacklist[k])
    THEN None ELSE name

\* <<father, mother>>
\* parts[k - 1] if len(parts) >= k else None
PartOrNone(parts, k) == IF Len(parts) >= k THEN Str(parts[k]) ELSE None

\* the two names among the parts
ParentsOf(parts) ==
    <<DropIfBlacklisted(PartOrNone(parts, 1)), DropIfBlacklisted(PartOrNone(parts, 2))>>

\* [p.strip(" :") for p in parts if p.strip(" :")]
StripParts(raw) ==
    SelectSeq([k \in 1..Len(raw) |-> stripChars(raw[k], {" ", ":"})], LAMBDA p : p # <<>>)

parse_parent_names(val) == ParentsOf(StripParts(Split(ParentSplitPat, normalize(val), FALSE)))

\* int(digits)
RECURSIVE ParseInt(_)
ParseInt(ds) ==
    IF ds = <<>> THEN 0
    ELSE 10 * ParseInt(SubSeq(ds, 1, Len(ds) - 1))
         + (CHOOSE d \in 0..9 : AsciiDigits[d + 1] = ds[Len(ds)])

PyInt(n) == [ty |-> "int", int |-> n]

AgeDigits == 3

\* ([a-z][a-z\s\.]+?)\s*\(\s*(\d{1,3})\s*\)
MemberParenPat ==
    Cat(<<Grp(1, Cat(<<One(Lower), ClsLazy(Lower \cup WS \cup {"."}, 1, Unbounded)>>)),
          Star(WS), One({"("}), Star(WS), Grp(2, Cls(Digit, 1, AgeDigits)), Star(WS), One({")"})>>)

\* ^([a-z][a-z\s\.]+?)\s+(\d{1,3})$
MemberPlainPat ==
    Cat(<<BOS, Grp(1, Cat(<<One(Lower), ClsLazy(Lower \cup WS \cup {"."}, 1, Unbounded)>>)),
          Plus(WS), Grp(2, Cls(Digit, 1, AgeDigits)), EOS>>)

\* \(\s*\)
EmptyParenPat == Cat(<<One({"("}), Star(WS), One({")"})>>)

\* the member record of one chunk, as a list of zero or one records
MemberOfMatches(ch, m, m2, bare) ==
    IF m # NoMatch
    THEN <<[name |-> Sub(WsRunPat, <<" ">>, strip(Group(ch, m, 1)), FALSE),
            age  |-> PyInt(ParseInt(Group(ch, m, 2)))]>>
    ELSE IF m2 # NoMatch
    THEN <<[name |-> Sub(WsRunPat, <<" ">>, strip(Group(ch, m2, 1)), FALSE),
            age  |-> PyInt(ParseInt(Group(ch, m2, 2)))]>>
    ELSE IF bare # <<>> THEN <<[name |-> bare]>>
    ELSE <<>>

MemberOfChunk(ch) ==
    MemberOfMatches(ch, Search(MemberParenPat, ch, TRUE), Search(MemberPlainPat, ch, TRUE),
                    stripChars(Sub(EmptyParenPat, <<>>, ch, FALSE), {" ", ":"}))

\* [c.strip() for c in t.split(",") if c.strip()]
MemberChunks(raw) == SelectSeq([k \in 1..Len(raw) |-> strip(raw[k])], LAMBDA c : c # <<>>)

MembersOfChunks(chunks) == Flatten([k \in 1..Len(chunks) |-> MemberOfChunk(chunks[k])])

parse_members_tolerant(text_) ==
    MembersOfChunks(MemberChunks(
        Split(One({","}), Sub(One({";"}), <<",">>, normalize(text_), FALSE), FALSE)))

\* ------------------------------------------------------------------------
\* Area with unit
\* ------------------------------------------------------------------------

Float(m, e) == [ty |-> "float", float |-> <<m, e>>]

\* the decimal m * 10^-e without trailing zeros of the fraction
RECURSIVE Reduce(_, _)
Reduce(m, e) == IF e > 0 /\ m % 10 = 0 THEN Reduce(m \div 10, e - 1) ELSE Float(m, e)

\* [0-9]+(\.[0-9]+)? , the texts float() is given here
PlainNumberPat ==
    Cat(<<BOS, Grp(1, Plus(Digit)), OptG(Cat(<<One({"."}), Grp(2, Plus(Digit))>>)), EOS>>)

\* float(token), or None when float() raises
\* the decimal of a whole part and a fraction
Decimal(whole, frac) == Reduce(ParseInt(whole \o frac), Len(frac))

ParseFloat(token) ==
    LET Parsed(m) ==
            IF m = NoMatch THEN None ELSE Decimal(Group(token, m, 1), Group(token, m, 2))
    IN  Parsed(MatchAt(PlainNumberPat, token, 1, FALSE))

\* ([0-9]+(?:[.,]\s*[0-9]+|\s+[0-9]{2})?)\s*h[a<alpha>]\b
NumPat ==
    Cat(<<Grp(1, Cat(<<Plus(Digit),
                       OptG(Alt(<<Cat(<<One({".", ","}), Star(WS), Plus(Digit)>>),
                                  Cat(<<Plus(WS), Cls(Digit, 2, 2)>>)>>))>>)),
          Star(WS), One({"h"}), One({"a", "alpha"}), WB>>)

\* \s*\.\s*
DotPat == Cat(<<Star(WS), One({"."}), Star(WS)>>)

\* (\d)\s+(\d{2})$
SpaceDecimalPat == Cat(<<Grp(1, One(Digit)), Plus(WS), Grp(2, Cls(Digit, 2, 2)), EOS>>)

\* re.sub(r"(\d)\s+(\d{2})$", r"\1.\2", token)
FixSpaceDecimal(token) ==
    LET Fixed(m) ==
            IF m = NoMatch THEN token
            ELSE Slice(token, 1, m.b - 1) \o Group(token, m, 1) \o <<".">> \o Group(token, m, 2)
                 \o Slice(token, m.e, Len(token))
    IN  Fixed(Search(SpaceDecimalPat, token, FALSE))

\* the token of a number match, made a decimal
\* token.replace(",", ".")
CommasToDots(t) == [k \in 1..Len(t) |-> IF t[k] = "," THEN "." ELSE t[k]]

NumberToken(window, mnum) ==
    FixSpaceDecimal(Sub(DotPat, <<".">>, CommasToDots(Group(window, mnum, 1)), FALSE))

MaxChars == 40

\* the value after the k-th keyword match of txt, or None
\* the value of the first number with its unit in the window, or None
ValueInWindow(window) ==
    LET Value(mnum) == IF mnum = NoMatch THEN None ELSE ParseFloat(NumberToken(window, mnum))
    IN  Value(Search(NumPat, window, TRUE))

ValueAfter(txt, m) == ValueInWindow(Slice(txt, m.e, Min2(Len(txt), m.e + MaxChars - 1)))

\* the loop over pat_kw.finditer(txt): the first value found, or None
\* v when it is a value, alt when it is None
OrElse(v, alt) == IF v # None THEN v ELSE alt

RECURSIVE FirstValue(_, _, _)
FirstValue(txt, ms, k) ==
    IF k > Len(ms) THEN None
    ELSE OrElse(ValueAfter(txt, ms[k]), FirstValue(txt, ms, k + 1))

NumberInNormalized(txt, pat_kw) == FirstValue(txt, FindIter(pat_kw, txt, TRUE), 1)

NumberInText(raw, pat_kw) == NumberInNormalized(normalize(raw), pat_kw)

LineRaw(items) == Join([k \in 1..Len(items) |-> items[k].text], <<" ">>)

\* the loop over the lines, then the loop over the pairs of adjacent lines
RECURSIVE SameLineValue(_, _, _)
SameLineValue(lines, pat_kw, i) ==
    IF i > Len(lines) THEN None
    ELSE OrElse(NumberInText(LineRaw(lines[i].items), pat_kw), SameLineValue(lines, pat_kw, i + 1))

RECURSIVE TwoLineValue(_, _, _)
TwoLineValue(lines, pat_kw, i) ==
    IF i > Len(lines) - 1 THEN None
    ELSE OrElse(NumberInText(LineRaw(lines[i].items \o lines[i + 1].items), pat_kw),
                TwoLineValue(lines, pat_kw, i + 1))

\* the pairs of adjacent lines tried before the single lines
number_after_keyword_with_ha_PairsFirst(lines, pat_kw) ==
    OrElse(TwoLineValue(lines, pat_kw, 1), SameLineValue(lines, pat_kw, 1))

number_after_keyword_with_ha(lines, pat_kw) ==
    OrElse(SameLineValue(lines, pat_kw, 1), TwoLineValue(lines, pat_kw, 1))

\* \bhabitation[:\s]*
HabitationPat == Cat(<<WB, Lit(w_habitation), Star({":"} \cup WS)>>)

\* \bself[-\s]*cultivation[:\s]*
SelfCultivationPat ==
    Cat(<<WB, Lit(w_self), Star({"-"} \cup WS), Lit(w_cultivation), Star({":"} \cup WS)>>)

\* ------------------------------------------------------------------------
\* Yes / no
\* ------------------------------------------------------------------------

YesPat == Cat(<<WB, Lit(w_yes), WB>>)

NoPat == Cat(<<WB, Lit(w_no), WB>>)

\* the candidates the items of a line add
HarvestYes(ln) == \E k \in 1..Len(ln.items) : Search(YesPat, normalize(ln.items[k].text), FALSE) # NoMatch

HarvestNo(ln) == \E k \in 1..Len(ln.items) : Search(NoPat, normalize(ln.items[k].text), FALSE) # NoMatch

\* the answer of the candidates
YesNo(yes, no) ==
    IF yes /\ ~no THEN Bool(TRUE)
    ELSE IF no /\ ~yes THEN Bool(FALSE)
    ELSE None

\* every line of the page is scanned
ScanLines_All(lines, idx) == IF idx = 0 THEN {} ELSE 1..Len(lines)

\* the lines scanned: the anchor's line and the next one
ScanLines(lines, idx) ==
    IF idx = 0 THEN {} ELSE {idx} \cup (IF idx + 1 <= Len(lines) THEN {idx + 1} ELSE {})

YesNoInScan(lines, scan) ==
    YesNo(\E i \in scan : HarvestYes(lines[i]), \E i \in scan : HarvestNo(lines[i]))

YesNoInLines(lines, anchor_rect) ==
    YesNoInScan(lines, ScanLines(lines, NearestLine(lines, (anchor_rect[2] + anchor_rect[4]) \div 2)))

yes_no_from_near_text(items, anchor_rect, page_w, page_h) ==
    YesNoInLines(group_by_lines(items, page_h), anchor_rect)

\* ------------------------------------------------------------------------
\* Checkboxes
\* ------------------------------------------------------------------------

\* a detected checkbox; near_label is a Str or None
Checkbox(x, y, w, h, filled_, label) ==
    [bbox |-> quad_from_xywh(x, y, w, h), filled |-> filled_, near_label |-> label]

BandMin == 12

\* filled is fill_ratio > 0.25
FilledOver == 25

\* max(12, int((by2 - by1) * 1.5))
Band(anchor_rect) == Max2(BandMin, (3 * (anchor_rect[4] - anchor_rect[2])) \div 2)

\* the boxes whose centre lies in the band around the anchor's centre
CloseBoxes(anchor_rect, boxes) ==
    LET cy == (anchor_rect[2] + anchor_rect[4]) \div 2
    IN  SelectSeq(boxes, LAMBDA b : Abs(mid_y(b) - cy) <= Band(anchor_rect))

\* a candidate checkbox; its fill ratio is given in hundredths
Candidate(x, y, w, h, ratio, label) ==
    [bbox |-> quad_from_xywh(x, y, w, h), filled |-> ratio > FilledOver,
     fill_ratio |-> ratio, near_label |-> label]

\* (x2 - x1) * (y2 - y1)
RectArea(r) == (r[3] - r[1]) * (r[4] - r[2])

\* iw * ih
InterArea(r, m) ==
    Max2(0, Min2(r[3], m[3]) - Max2(r[1], m[1])) * Max2(0, Min2(r[4], m[4]) - Max2(r[2], m[2]))

\* iw*ih > 0.3*min(area of r, area of m)
OverlapsRects(r, m) == 10 * InterArea(r, m) > 3 * Min2(RectArea(r), RectArea(m))

Overlaps(b, m) == OverlapsRects(rect_from_bbox(b.bbox), rect_from_bbox(m.bbox))

\* the first box of merged that b overlaps, or 0
FirstOverlap(merged_, b) ==
    IF \E k \in 1..Len(merged_) : Overlaps(b, merged_[k])
    THEN CHOOSE k \in 1..Len(merged_) :
            /\ Overlaps(b, merged_[k])
            /\ \A j \in 1..(k - 1) : ~Overlaps(b, merged_[j])
    ELSE 0

\* one pass of the loop over the candidates; k is the first box b overlaps
MergeAt(merged_, b, k) ==
    IF k = 0 THEN Append(merged_, b)
    ELSE IF b.fill_ratio > merged_[k].fill_ratio THEN [merged_ EXCEPT ![k] = b]
    ELSE merged_

MergeBox(merged_, b) == MergeAt(merged_, b, FirstOverlap(merged_, b))

\* the loop that merges overlapping duplicates
RECURSIVE MergeDuplicates(_, _)
MergeDuplicates(boxes_, k) ==
    IF k = 0 THEN <<>> ELSE MergeBox(MergeDuplicates(boxes_, k - 1), boxes_[k])

\* (b.get("near_label") or "")
LabelOf(b) == IF b.near_label = None THEN <<>> ELSE b.near_label.str

\* the loop over the labels of the boxes
RECURSIVE FromLabels(_, _)
FromLabels(close, k) ==
    IF k > Len(close) THEN None
    ELSE IF Contains(LabelOf(close[k]), w_yes) /\ close[k].filled THEN Bool(TRUE)
    ELSE IF Contains(LabelOf(close[k]), w_no) /\ close[k].filled THEN Bool(FALSE)
    ELSE FromLabels(close, k + 1)

\* the answer of the two leftmost boxes when exactly one of them is filled
FromPair(sorted) ==
    IF sorted[1].filled # sorted[2].filled THEN Bool(sorted[1].filled) ELSE None

\* close.sort(key=left edge) when there are two boxes or more
SortClose(close) ==
    IF Len(close) >= 2
    THEN SortedByKey([k \in 1..Len(close) |-> <<left_x(close[k]), close[k]>>])
    ELSE close

\* the answer of the pair, else that of the labels
FromPairOrLabels(close) ==
    OrElse(IF Len(close) >= 2 THEN FromPair(close) ELSE None, FromLabels(close, 1))

\* anchor_rect is <<>> for None
bool_from_checkboxes_near(anchor_rect, m2_page) ==
    IF anchor_rect = <<>> THEN None
    ELSE FromPairOrLabels(SortClose(CloseBoxes(anchor_rect, m2_page.checkboxes)))

\* ------------------------------------------------------------------------
\* extract_page_fields
\* ------------------------------------------------------------------------

DefaultHeight == 3500

DefaultWidth == 2500

\* int(page_meta.get("height") or 3500)
PageHeight(page_meta) == IF page_meta.height = 0 THEN DefaultHeight ELSE page_meta.height

PageWidth(page_meta) == IF page_meta.width = 0 THEN DefaultWidth ELSE page_meta.width

\* :\s*(.*)$
InlineColonPat == Cat(<<One({":"}), Star(WS), Grp(1, NotCls(Dot, 0, Unbounded)), EOS>>)

\* the text harvested right of an anchor, stop-cut; "" when nothing is collected
HarvestText(vals) == IF vals # <<>> THEN cut_at_next_label(join_items_text(vals)) ELSE <<>>

\* the anchor's own text is not looked at
InlineAfterColon_Skipped(it, text_) == text_

\* the text after the first colon of the anchor's own text
InlineAfterColon(it, text_) ==
    LET Inline(m) == IF m # NoMatch THEN Group(it.text, m, 1) ELSE text_
    IN  Inline(Search(InlineColonPat, it.text, FALSE))

\* text, or the inline text when text is empty
TextOrInline(it, text_) == IF text_ = <<>> THEN InlineAfterColon(it, text_) ELSE text_

\* the text and the rectangle for the anchor item it
AfterRect(items, it, rect, w, h) ==
    [text |-> TextOrInline(it, HarvestText(collect_right_bounded(items, rect, w, h))),
     rect |-> rect]

AfterAnchor(items, it, w, h) ==
    IF it = None THEN [text |-> <<>>, rect |-> <<>>]
    ELSE AfterRect(items, it, rect_from_bbox(it.bbox), w, h)

\* [text, rect]; rect is <<>> for None
get_after(items, key, w, h) == AfterAnchor(items, find_anchor_item(items, ANCHORS[key]), w, h)

\* the text right of the anchor, else the text below it
RightOrBelow(items, fm, w, h) ==
    IF fm.text = <<>> /\ fm.rect # <<>>
    THEN join_items_text(collect_below_same_column(items, fm.rect, w, h))
    ELSE fm.text

\* the raw text of father/mother
FatherMotherRaw(items, w, h) == RightOrBelow(items, get_after(items, "father_mother", w, h), w, h)

\* f or ""
OrEmpty(v) == IF v = None THEN <<>> ELSE v.str

\* the yes/no of the near text when it gives one, else the checkbox answer
BoxOrText_TextFirst(items, rect, box, w, h) ==
    IF rect # <<>> /\ yes_no_from_near_text(items, rect, w, h) # None
    THEN yes_no_from_near_text(items, rect, w, h) ELSE box

\* the checkbox answer, else the yes/no of the near text
BoxOrText(items, rect, box, w, h) ==
    IF box = None /\ rect # <<>> THEN yes_no_from_near_text(items, rect, w, h) ELSE box

BoolNear(items, rect, m2_page, w, h) ==
    BoxOrText(items, rect, bool_from_checkboxes_near(rect, m2_page), w, h)

\* otfd after the exclusivity rule of the page
PageExclusive(st, ot) == IF st = Bool(TRUE) /\ ot = Bool(TRUE) THEN Bool(FALSE) ELSE ot

\* \[\s*[x<check><heavy check>]\s*\]
CheckedGlyphPat ==
    Cat(<<One({"["}), Star(WS), One({"x", "check", "heavycheck"}), Star(WS), One({"]"})>>)

\* \bsignature[^:\n]*:\s*\S
InlineSignaturePat ==
    Cat(<<WB, Lit(w_signature), NotCls({":", "\n"}, 0, Unbounded), One({":"}), Star(WS),
          NotCls(WS, 1, 1)>>)

\* a page without a mark of a signature is reported as unsigned
SignatureInText_False(page_text) ==
    IF Search(CheckedGlyphPat, page_text, FALSE) # NoMatch
       \/ Search(InlineSignaturePat, page_text, FALSE) # NoMatch
    THEN Bool(TRUE) ELSE Bool(FALSE)

\* the OCR fallback on the text of the page
SignatureInText(page_text) ==
    IF Search(CheckedGlyphPat, page_text, FALSE) # NoMatch
       \/ Search(InlineSignaturePat, page_text, FALSE) # NoMatch
    THEN Bool(TRUE) ELSE None

\* the signature regions of the detector are not looked at
SignaturePresent_TextOnly(items, m2_page) ==
    SignatureInText(normalize(Join([k \in 1..Len(items) |-> items[k].text], <<"\n">>)))

SignaturePresent(items, m2_page) ==
    IF m2_page.signatures # <<>> THEN Bool(TRUE)
    ELSE SignatureInText(normalize(Join([k \in 1..Len(items) |-> items[k].text], <<"\n">>)))

\* the post-fix of a claimant and a spouse that came out the same
SplitTokens(out, toks) ==
    IF Len(toks) = 3
    THEN [out EXCEPT !.claimant_name = Str(Join(SubSeq(toks, 1, 2), <<" ">>)),
                     !.spouse_name = Str(toks[3])]
    ELSE IF Len(toks) = 4
    THEN [out EXCEPT !.claimant_name = Str(Join(SubSeq(toks, 1, 2), <<" ">>)),
                     !.spouse_name = Str(Join(SubSeq(toks, 3, 4), <<" ">>))]
    ELSE out

SplitMerged(out) ==
    IF out.claimant_name # None /\ out.spouse_name # None
       /\ normalize(out.claimant_name.str) = normalize(out.spouse_name.str)
    THEN SplitTokens(out, split(out.claimant_name.str))
    ELSE out

TalukaKeep == 3

DistrictKeep == 3

\* sanitize_person_value(f or "") or None, for father and mother
SanitizeParents(parents) ==
    <<OrNone(sanitize_person_value(OrEmpty(parents[1]))),
      OrNone(sanitize_person_value(OrEmpty(parents[2])))>>

\* <<father_name, mother_name>> of the raw text
ParentFields(fm_raw) ==
    IF fm_raw # <<>> THEN SanitizeParents(parse_parent_names(fm_raw)) ELSE <<None, None>>

\* the members of the raw text
MemberField(om_raw) == IF om_raw # <<>> THEN parse_members_tolerant(om_raw) ELSE <<>>

\* the fields, given the parents, the lines and the two booleans
PageFields(items, m2_page, w, h, parents, lines, st, ot) ==
        SplitMerged(
          [claimant_name  |-> OrNone(sanitize_person_value(get_after(items, "claimant_name", w, h).text)),
           spouse_name    |-> OrNone(sanitize_person_value(get_after(items, "spouse_name", w, h).text)),
           father_name    |-> parents[1],
           mother_name    |-> parents[2],
           address        |-> OrNone(sanitize_address_value(get_after(items, "address", w, h).text)),
           village        |-> sanitize_village_value(get_after(items, "village", w, h).text),
           gram_panchayat |-> sanitize_gp_value(get_after(items, "gram_panchayat", w, h).text),
           tehsil_taluka  |-> sanitize_required_suffix(get_after(items, "tehsil_taluka", w, h).text,
                                                       w_taluka, TalukaKeep),
           district       |-> sanitize_required_suffix(get_after(items, "district", w, h).text,
                                                       w_district, DistrictKeep),
           scheduled_tribe |-> st,
           otfd           |-> PageExclusive(st, ot),
           other_members  |-> MemberField(get_after(items, "other_members", w, h).text),
           habitation_area_ha       |-> number_after_keyword_with_ha(lines, HabitationPat),
           self_cultivation_area_ha |-> number_after_keyword_with_ha(lines, SelfCultivationPat),
           signature_present |-> SignaturePresent(items, m2_page)])

\* the fields of a page of width w and height h
FieldsOfSize(items, m2_page, w, h) ==
    PageFields(items, m2_page, w, h,
               ParentFields(FatherMotherRaw(items, w, h)),
               group_by_lines(items, h),
               BoolNear(items, get_after(items, "scheduled_tribe", w, h).rect, m2_page, w, h),
               BoolNear(items, get_after(items, "otfd", w, h).rect, m2_page, w, h))

extract_page_fields(page_meta, items, m2_page) ==
    FieldsOfSize(items, m2_page, PageWidth(page_meta), PageHeight(page_meta))

\* ------------------------------------------------------------------------
\* process_document: the merge across pages
\* ------------------------------------------------------------------------

EmptyFields ==
    [claimant_name |-> None, spouse_name |-> None, father_name |-> None, mother_name |-> None,
     address |-> None, village |-> None, gram_panchayat |-> None, tehsil_taluka |-> None,
     district |-> None, scheduled_tribe |-> None, otfd |-> None, other_members |-> <<>>,
     habitation_area_ha |-> None, self_cultivation_area_ha |-> None, signature_present |-> None]

\* the fields merged by pick
ScalarKeys == DOMAIN EmptyFields \ {"other_members"}

\* the later value wins
pick_LastWins(cur, new) == IF new \notin {None, Str(<<>>), List(<<>>)} THEN new ELSE cur

\* cur if cur not in [None, "", []] else new
pick(cur, new) == IF cur \notin {None, Str(<<>>), List(<<>>)} THEN cur ELSE new

\* (m.get("name"), m.get("age"))
MemberKey(m) == <<m.name, IF "age" \in DOMAIN m THEN m.age ELSE None>>

\* the members of a page appended without the membership test
UnionMembers_NoTest(list, new, k) == list \o new

\* the loop over one page's members: those not yet in the list are appended
RECURSIVE UnionMembers(_, _, _)
UnionMembers(list, new, k) ==
    IF k > Len(new) THEN list
    ELSE IF \E j \in 1..Len(list) : MemberKey(list[j]) = MemberKey(new[k])
    THEN UnionMembers(list, new, k + 1)
    ELSE UnionMembers(Append(list, new[k]), new, k + 1)

\* one pass of the loop over the pages
MergePage(m, f) ==
    [k \in DOMAIN EmptyFields |->
        IF k = "other_members" THEN UnionMembers(m[k], f[k], 1) ELSE pick(m[k], f[k])]

\* the exclusivity rule left out
MergedExclusive_Skipped(m) == m

\* the exclusivity rule after the merge
MergedExclusive(m) ==
    IF m.scheduled_tribe = Bool(TRUE) /\ m.otfd = Bool(TRUE)
    THEN [m EXCEPT !.otfd = Bool(FALSE)] ELSE m

\* ------------------------------------------------------------------------
\* Pages as the OCR and the detectors deliver them
\* ------------------------------------------------------------------------

t_village_label == <<"V","i","l","l","a","g","e","/","G","r","a","m"," ","S","a","b","h","a">>

t_st_label == <<"S","c","h","e","d","u","l","e","d"," ","T","r","i","b","e">>

t_otfd_label == <<"O","t","h","e","r"," ","T","r","a","d","i","t","i","o","n","a","l"," ","F","o","r","e","s","t"," ","D","w","e","l","l","e","r">>

t_members_label == <<"N","a","m","e"," ","o","f"," ","o","t","h","e","r"," ","m","e","m","b","e","r","s">>

t_a_10 == <<"a"," ","(","1","0",")">>

t_a_10_comma == <<"a"," ","(","1","0",")",",">>

t_b_comma == <<"b",",">>

t_a_11 == <<"a"," ","(","1","1",")">>

t_b == <<"b">>

t_x == <<"x">>

t_y == <<"y">>

t_Yes == <<"Y","e","s">>

t_0 == <<"0">>

t_1 == <<"1">>

t_25 == <<"2","5">>

t_ha == <<"h","a">>

t_Habitation == <<"H","a","b","i","t","a","t","i","o","n">>

t_holder_label == <<"N","a","m","e","(","s",")"," ","o","f"," ","H","o","l","d","e","r","(","s",")">>

t_address_label == <<"4","."," ","A","d","d","r","e","s","s">>

t_comma == <<",">>

\* rows of a form, 30 apart; labels at the left edge, values right of them
LabelAt(text_, row) == Item(text_, 90, 0, 30 * row, 20, 10)

ValueAt(text_, col, row) == Item(text_, 90, 30 * col, 30 * row, 10, 10)

\* a yes box and a no box right of the label of a row
BoxPair(row, yes_filled, no_filled) ==
    <<Checkbox(40, 30 * row, 10, 10, yes_filled, None),
      Checkbox(70, 30 * row, 10, 10, no_filled, None)>>

NoShapes == [checkboxes |-> <<>>, signatures |-> <<>>, stamps |-> <<>>]

Image(items_, boxes) ==
    [items |-> items_, width |-> 200, height |-> 100,
     m2_page |-> [checkboxes |-> boxes, signatures |-> <<>>, stamps |-> <<>>]]

\* The pages a document of the model is made of
PageCatalogue ==
    << Image(<<>>, <<>>),
       Image(<<LabelAt(t_village_label, 0), ValueAt(t_x, 1, 0)>>, <<>>),
       Image(<<LabelAt(t_village_label, 0), ValueAt(t_y, 1, 0)>>, <<>>),
       Image(<<LabelAt(t_st_label, 0)>>, BoxPair(0, TRUE, FALSE)),
       Image(<<LabelAt(t_st_label, 0)>>, BoxPair(0, FALSE, TRUE)),
       Image(<<LabelAt(t_otfd_label, 2), ValueAt(t_Yes, 1, 2)>>, <<>>),
       Image(<<LabelAt(t_st_label, 0), LabelAt(t_otfd_label, 2)>>,
             BoxPair(0, TRUE, FALSE) \o BoxPair(2, TRUE, FALSE)),
       Image(<<LabelAt(t_members_label, 3), ValueAt(t_a_10, 1, 3)>>, <<>>),
       Image(<<LabelAt(t_members_label, 3), ValueAt(t_a_10_comma, 1, 3), ValueAt(t_b, 2, 3)>>, <<>>),
       Image(<<LabelAt(t_members_label, 3), ValueAt(t_b_comma, 1, 3), ValueAt(t_a_11, 2, 3)>>, <<>>),
       Image(<<ValueAt(t_Habitation, 0, 1), ValueAt(t_0, 1, 1), ValueAt(t_ha, 2, 1),
               LabelAt(t_village_label, 0), ValueAt(t_y, 1, 0)>>, <<>>),
       Image(<<LabelAt(t_holder_label, 0), ValueAt(t_25, 1, 0),
               LabelAt(t_address_label, 1), ValueAt(t_comma, 1, 1)>>, <<>>) >>

\* the page of the catalogue whose harvests hold nothing a sanitizer keeps
BarePage == Len(PageCatalogue)

\* extract_page_fields on the n-th page of a document
ExtractImage(img, n) ==
    extract_page_fields([page_number |-> n, width |-> img.width, height |-> img.height],
                        img.items, img.m2_page)

\* the fields of every page of the catalogue (the page number plays no part)
CatalogueFields == [i \in 1..Len(PageCatalogue) |-> ExtractImage(PageCatalogue[i], 1)]

MaxPages == 3

\* a page_meta without a size
NoMeta == [page_number |-> 1, width |-> 0, height |-> 0]

\* the fields whose harvested text goes to a sanitizer or a parser
RawKeys ==
    {"claimant_name", "spouse_name", "address", "village", "gram_panchayat",
     "tehsil_taluka", "district", "father_mother", "other_members"}

NoRaw == [k \in RawKeys |-> <<>>]

NoBools == [st_box |-> None, ot_box |-> None]

VARIABLES
    pages,        \* process_document: the page results so far
    merged,       \* process_document: the merged record
    doc_pc,       \* process_document: "pages", "merge" or "done"
    merge_idx,    \* process_document: the page the merge loop is at
    tokens,       \* group_by_lines: the OCR items of a page, in OCR order
    page_h,       \* group_by_lines: the page height
    lines,        \* group_by_lines: the lines returned
    lines_pc,     \* group_by_lines: "ocr" or "grouped"
    box_anchor,   \* bool_from_checkboxes_near: the anchor's rectangle, <<>> for none
    boxes,        \* bool_from_checkboxes_near: the checkboxes detected on the page
    box_value,    \* bool_from_checkboxes_near: the value returned
    box_pc,       \* bool_from_checkboxes_near: "detect" or "resolved"
    cut_text,     \* cut_at_next_label: the harvested text, piece by piece
    cut_once,     \* cut_at_next_label: the text cut
    cut_twice,    \* cut_at_next_label: the cut text cut again
    cut_pc,       \* cut_at_next_label: "harvest", "cut" or "recut"
    anchor_items, \* find_anchor_item: the OCR items of a page, in OCR order
    anchor_key,   \* find_anchor_item: the field whose anchor is looked for
    anchor_found, \* find_anchor_item: the item returned
    anchor_again, \* find_anchor_item: the item returned by a second call
    anchor_pc,    \* find_anchor_item: "ocr", "found" or "again"
    person_raw,   \* sanitize_person_value: the harvested text
    person_next,  \* sanitize_person_value: the word of the form the harvest is at
    person_value, \* sanitize_person_value: the value returned
    person_pc,    \* sanitize_person_value: "harvest" or "sanitized"
    area_rows,    \* number_after_keyword_with_ha: the rows of words on the page
    area_value,   \* number_after_keyword_with_ha: the value returned
    area_pc,      \* number_after_keyword_with_ha: "ocr" or "parsed"
    form_items,   \* extract_page_fields: the OCR items of the page, in OCR order
    form_boxes,   \* extract_page_fields: the checkboxes detected on the page
    form_sigs,    \* extract_page_fields: the signatures detected on the page
    form_meta,    \* extract_page_fields: page_meta
    form_raw,     \* extract_page_fields: the harvested texts (claim_raw ... om_raw)
    form_bools,   \* extract_page_fields: st_box and ot_box as assigned to the fields
    form_fields,  \* extract_page_fields: the fields returned
    form_pc,      \* extract_page_fields: "ocr" or "extracted"
    cand_boxes,   \* detect_checkboxes: boxes, the candidates in the order found
    kept_boxes,   \* detect_checkboxes: merged, the list returned
    dedupe_pc,    \* detect_checkboxes: "contours" or "merged"
    near_items,   \* collection functions: the OCR items of the page, in OCR order
    near_anchor,  \* collection functions: the anchor's rectangle
    near_w,       \* collection functions: the page width
    near_right,   \* collect_right_bounded: the items returned
    near_below,   \* collect_below_same_column: the items returned
    near_answer,  \* yes_no_from_near_text: the value returned
    near_pc,      \* collection functions: "ocr", "right", "below" or "scanned"
    heap,         \* the list and dict objects of the interpreter, by address
    frame_in,     \* the objects as they were when the last call began
    frame_pages,  \* process_document: pages, the addresses of the page results
    frame_pc,     \* "input", or the function that was called
    run_folder,   \* main: the names of the files in the input folder
    run_inputs,   \* main: inputs, the files to process, sorted
    run_idx,      \* main: the input the loop is at
    run_docs,     \* main: docs, what is known of each document processed
    run_fs,       \* the files under outdir: for each path, the input it was last written for
    run_pc        \* main: "list", "loop" or "done"

docVars == <<pages, merged, doc_pc, merge_idx>>

lineVars == <<tokens, page_h, lines, lines_pc>>

boxVars == <<box_anchor, boxes, box_value, box_pc>>

cutVars == <<cut_text, cut_once, cut_twice, cut_pc>>

anchorVars == <<anchor_items, anchor_key, anchor_found, anchor_again, anchor_pc>>

personVars == <<person_raw, person_next, person_value, person_pc>>

areaVars == <<area_rows, area_value, area_pc>>

dedupeVars == <<cand_boxes, kept_boxes, dedupe_pc>>

pageVars ==
    <<form_items, form_boxes, form_sigs, form_meta, form_raw, form_bools, form_fields, form_pc>>

nearVars == <<near_items, near_anchor, near_w, near_right, near_below, near_answer, near_pc>>

frameVars == <<heap, frame_in, frame_pages, frame_pc>>

runVars == <<run_folder, run_inputs, run_idx, run_docs, run_fs, run_pc>>

vars == <<docVars, lineVars, boxVars, cutVars, anchorVars, personVars, areaVars, pageVars, dedupeVars, nearVars, frameVars, runVars>>

\* the variables of an operation that a behaviour does not exercise
DocIdle ==
    /\ pages = <<>>
    /\ merged = EmptyFields
    /\ doc_pc = "idle"
    /\ merge_idx = 1

LinesIdle ==
    /\ tokens = <<>>
    /\ page_h = 0
    /\ lines = <<>>
    /\ lines_pc = "idle"

BoxIdle ==
    /\ box_anchor = <<>>
    /\ boxes = <<>>
    /\ box_value = None
    /\ box_pc = "idle"

CutIdle ==
    /\ cut_text = <<>>
    /\ cut_once = <<>>
    /\ cut_twice = <<>>
    /\ cut_pc = "idle"

AnchorIdle ==
    /\ anchor_items = <<>>
    /\ anchor_key = "village"
    /\ anchor_found = None
    /\ anchor_again = None
    /\ anchor_pc = "idle"

PersonIdle ==
    /\ person_raw = <<>>
    /\ person_next = 1
    /\ person_value = <<>>
    /\ person_pc = "idle"

AreaIdle ==
    /\ area_rows = <<>>
    /\ area_value = None
    /\ area_pc = "idle"

DedupeIdle ==
    /\ cand_boxes = <<>>
    /\ kept_boxes = <<>>
    /\ dedupe_pc = "idle"

NearIdle ==
    /\ near_items = <<>>
    /\ near_anchor = <<>>
    /\ near_w = 0
    /\ near_right = <<>>
    /\ near_below = <<>>
    /\ near_answer = None
    /\ near_pc = "idle"

FrameIdle ==
    /\ heap = <<>>
    /\ frame_in = <<>>
    /\ frame_pages = <<>>
    /\ frame_pc = "idle"

RunIdle ==
    /\ run_folder = {}
    /\ run_inputs = <<>>
    /\ run_idx = 1
    /\ run_docs = <<>>
    /\ run_fs = <<>>
    /\ run_pc = "idle"

PageIdle ==
    /\ form_items = <<>>
    /\ form_boxes = <<>>
    /\ form_sigs = <<>>
    /\ form_meta = NoMeta
    /\ form_raw = NoRaw
    /\ form_bools = NoBools
    /\ form_fields = EmptyFields
    /\ form_pc = "idle"

NotDoc == <<lineVars, boxVars, cutVars, anchorVars, personVars, areaVars, pageVars, dedupeVars, nearVars, frameVars, runVars>>

NotLines == <<docVars, boxVars, cutVars, anchorVars, personVars, areaVars, pageVars, dedupeVars, nearVars, frameVars, runVars>>

NotBox == <<docVars, lineVars, cutVars, anchorVars, personVars, areaVars, pageVars, dedupeVars, nearVars, frameVars, runVars>>

NotCut == <<docVars, lineVars, boxVars, anchorVars, personVars, areaVars, pageVars, dedupeVars, nearVars, frameVars, runVars>>

NotAnchor == <<docVars, lineVars, boxVars, cutVars, personVars, areaVars, pageVars, dedupeVars, nearVars, frameVars, runVars>>

NotPerson == <<docVars, lineVars, boxVars, cutVars, anchorVars, areaVars, pageVars, dedupeVars, nearVars, frameVars, runVars>>

NotArea == <<docVars, lineVars, boxVars, cutVars, anchorVars, personVars, pageVars, dedupeVars, nearVars, frameVars, runVars>>

NotPage == <<docVars, lineVars, boxVars, cutVars, anchorVars, personVars, areaVars, dedupeVars, nearVars, frameVars, runVars>>

NotDedupe == <<docVars, lineVars, boxVars, cutVars, anchorVars, personVars, areaVars, pageVars, nearVars, frameVars, runVars>>

NotNear == <<docVars, lineVars, boxVars, cutVars, anchorVars, personVars, areaVars, pageVars, dedupeVars, frameVars, runVars>>

NotFrame == <<docVars, lineVars, boxVars, cutVars, anchorVars, personVars, areaVars, pageVars, dedupeVars, nearVars, runVars>>

NotRun == <<docVars, lineVars, boxVars, cutVars, anchorVars, personVars, areaVars, pageVars, dedupeVars, nearVars, frameVars>>

\* ------------------------------------------------------------------------
\* process_document as a state machine
\* ------------------------------------------------------------------------

DocInit ==
    /\ pages = <<>>
    /\ merged = EmptyFields
    /\ doc_pc = "pages"
    /\ merge_idx = 1
    /\ LinesIdle /\ BoxIdle /\ CutIdle /\ AnchorIdle /\ PersonIdle /\ AreaIdle /\ PageIdle /\ DedupeIdle /\ NearIdle /\ FrameIdle /\ RunIdle

\* one pass of the loop over the images: OCR, detection, extraction
ProcessPage ==
    /\ doc_pc = "pages"
    /\ Len(pages) < MaxPages
    /\ \E i \in 1..Len(PageCatalogue) :
          pages' = Append(pages, [page_number |-> Len(pages) + 1,
                                  image       |-> i,
                                  fields      |-> CatalogueFields[i]])
    /\ UNCHANGED <<merged, doc_pc, merge_idx>>
    /\ UNCHANGED NotDoc

\* the images are exhausted
StartMerge ==
    /\ doc_pc = "pages"
    /\ doc_pc' = "merge"
    /\ UNCHANGED <<pages, merged, merge_idx>>
    /\ UNCHANGED NotDoc

\* one pass of the merge loop
MergeNextPage ==
    /\ doc_pc = "merge"
    /\ merge_idx <= Len(pages)
    /\ merged' = MergePage(merged, pages[merge_idx].fields)
    /\ merge_idx' = merge_idx + 1
    /\ UNCHANGED <<pages, doc_pc>>
    /\ UNCHANGED NotDoc

\* the exclusivity rule after the loop; the record is complete
FinishMerge ==
    /\ doc_pc = "merge"
    /\ merge_idx > Len(pages)
    /\ merged' = MergedExclusive(merged)
    /\ doc_pc' = "done"
    /\ UNCHANGED <<pages, merge_idx>>
    /\ UNCHANGED NotDoc

DocNext == ProcessPage \/ StartMerge \/ MergeNextPage \/ FinishMerge

Init == DocInit

Next == DocNext

Spec == Init /\ [][Next]_vars

\* ------------------------------------------------------------------------
\* Properties of the merge
\* ------------------------------------------------------------------------

\* a value that does not count as set
Unset(v) == v = None \/ v = Str(<<>>) \/ v = List(<<>>)

\* the pages among the first n whose value of field k is set
SetPages(k, n) == {i \in 1..n : ~Unset(pages[i].fields[k])}

\* the value of field k on the first of the first n pages that sets it
FirstSetValue(k, n) == pages[SetMin(SetPages(k, n))].fields[k]

\* the pages the merge loop has gone through
MergedPages == merge_idx - 1

\* C1 as stated: in every page result and in the finished document record,
\* scheduled_tribe = true implies otfd = false.
C1_StTrueImpliesOtfdFalse ==
    /\ \A i \in 1..Len(pages) :
          pages[i].fields.scheduled_tribe = Bool(TRUE) => pages[i].fields.otfd = Bool(FALSE)
    /\ doc_pc = "done" =>
          (merged.scheduled_tribe = Bool(TRUE) => merged.otfd = Bool(FALSE))

\* C1, amended: in every page result and in the finished document record,
\* scheduled_tribe = true implies that otfd is not true (it is false, or null
\* where nothing resolved it).
C1_Exclusive ==
    /\ \A i \in 1..Len(pages) :
          pages[i].fields.scheduled_tribe = Bool(TRUE) =>
              pages[i].fields.otfd \in {Bool(FALSE), None}
    /\ doc_pc = "done" =>
          (merged.scheduled_tribe = Bool(TRUE) => merged.otfd \in {Bool(FALSE), None})

\* C1 witness: one page sets scheduled_tribe, a later page sets otfd, and the
\* finished record has scheduled_tribe true and otfd forced to false.
C1_Witness ==
    /\ doc_pc = "done"
    /\ \E i, j \in 1..Len(pages) :
          /\ i < j
          /\ pages[i].fields.scheduled_tribe = Bool(TRUE) /\ pages[i].fields.otfd = None
          /\ pages[j].fields.otfd = Bool(TRUE) /\ pages[j].fields.scheduled_tribe = None
    /\ merged.scheduled_tribe = Bool(TRUE)
    /\ merged.otfd = Bool(FALSE)

\* C2 as stated: in the finished record every field other than other_members
\* has the value of the first page that sets it.
C2_FirstWinsEveryField ==
    doc_pc = "done" =>
        \A k \in ScalarKeys :
            SetPages(k, Len(pages)) # {} => merged[k] = FirstSetValue(k, Len(pages))

\* C2, amended: while merging and in the finished record, every field other
\* than other_members and otfd has the value of the first merged page that
\* sets it (so a later page never changes it) and is unset when no page sets
\* it; otfd has it too, except that in the finished record it is false when
\* scheduled_tribe is true and the first set otfd is true.
C2_FirstWins ==
    doc_pc \in {"merge", "done"} =>
        \A k \in ScalarKeys :
            IF SetPages(k, MergedPages) = {} THEN Unset(merged[k])
            ELSE IF /\ k = "otfd"
                    /\ doc_pc = "done"
                    /\ merged.scheduled_tribe = Bool(TRUE)
                    /\ FirstSetValue("otfd", MergedPages) = Bool(TRUE)
                 THEN merged.otfd = Bool(FALSE)
                 ELSE merged[k] = FirstSetValue(k, MergedPages)

\* C2 witness: page 1 has village x, page 2 has village y, and the finished
\* record has village x.
C2_Witness ==
    /\ doc_pc = "done"
    /\ Len(pages) >= 2
    /\ pages[1].fields.village = Str(t_x)
    /\ pages[2].fields.village = Str(t_y)
    /\ merged.village = Str(t_x)

\* the member lists of the first n pages, one after the other
RECURSIVE AllMembers(_)
AllMembers(n) == IF n = 0 THEN <<>> ELSE AllMembers(n - 1) \o pages[n].fields.other_members

\* where the pair (name, age) of a record is first seen in a list
FirstSeen(list, m) ==
    SetMin({i \in 1..Len(list) :
               /\ list[i].name = m.name
               /\ ("age" \in DOMAIN list[i]) = ("age" \in DOMAIN m)
               /\ "age" \in DOMAIN m => list[i].age = m.age})

\* C3: while merging and in the finished record, other_members holds exactly
\* the records of the merged pages, one for every pair (name, age), no pair
\* twice, in the order in which the pairs are first seen going through the
\* pages in page order and every page's list in list order.
C3_MembersUnion ==
    doc_pc \in {"merge", "done"} =>
        LET all == AllMembers(MergedPages)
            got == merged.other_members
        IN  /\ \A i \in 1..Len(all) : \E j \in 1..Len(got) : FirstSeen(all, got[j]) = FirstSeen(all, all[i])
            /\ \A j \in 1..Len(got) :
                  /\ \E i \in 1..Len(all) : all[i] = got[j]
                  /\ got[j] = all[FirstSeen(all, got[j])]
            /\ \A i, j \in 1..Len(got) :
                  i < j => FirstSeen(all, got[i]) < FirstSeen(all, got[j])

\* C3 witness: page 1 lists a (10), page 2 lists a (10) and b, and the
\* finished record lists a (10), then b.
C3_Witness ==
    /\ doc_pc = "done"
    /\ Len(pages) = 2
    /\ pages[1].fields.other_members = <<[name |-> <<"a">>, age |-> PyInt(10)]>>
    /\ pages[2].fields.other_members = <<[name |-> <<"a">>, age |-> PyInt(10)], [name |-> <<"b">>]>>
    /\ merged.other_members = <<[name |-> <<"a">>, age |-> PyInt(10)], [name |-> <<"b">>]>>

\* ------------------------------------------------------------------------
\* group_by_lines as a state machine
\* ------------------------------------------------------------------------

MaxItems == 4

\* the boxes an OCR item of the model can have: two columns, four heights
TokenPool ==
    {Item(IF x = 0 THEN <<"a">> ELSE <<"b">>, 90, x, y, 10, 10) : x \in {0, 30}, y \in {0, 8, 14, 30}}

PageHeights == {100, 1000}

LinesInit ==
    /\ tokens = <<>>
    /\ page_h \in PageHeights
    /\ lines = <<>>
    /\ lines_pc = "ocr"
    /\ DocIdle /\ BoxIdle /\ CutIdle /\ AnchorIdle /\ PersonIdle /\ AreaIdle /\ PageIdle /\ DedupeIdle /\ NearIdle /\ FrameIdle /\ RunIdle

\* the OCR engine delivers one more item
OcrItem ==
    /\ lines_pc = "ocr"
    /\ Len(tokens) < MaxItems
    /\ \E it \in TokenPool : tokens' = Append(tokens, it)
    /\ UNCHANGED <<page_h, lines, lines_pc>>
    /\ UNCHANGED NotLines

\* group_by_lines(items, page_h)
GroupLines ==
    /\ lines_pc = "ocr"
    /\ lines' = group_by_lines(tokens, page_h)
    /\ lines_pc' = "grouped"
    /\ UNCHANGED <<tokens, page_h>>
    /\ UNCHANGED NotLines

LinesNext == OcrItem \/ GroupLines

SpecLines == LinesInit /\ [][LinesNext]_vars

\* how often an item occurs in a list
Count(list, it) == Cardinality({k \in 1..Len(list) : list[k] = it})

\* the items of all lines, line after line
LineItems == Flatten([k \in 1..Len(lines) |-> lines[k].items])

\* C4: after grouping, every token of the input is in exactly one line, as often
\* as the input holds it, the lines hold nothing else, and an input without
\* tokens gives no line.
C4_Partition ==
    lines_pc = "grouped" =>
        /\ Len(LineItems) = Len(tokens)
        /\ \A k \in 1..Len(tokens) : Count(LineItems, tokens[k]) = Count(tokens, tokens[k])
        /\ \A k \in 1..Len(LineItems) : Count(tokens, LineItems[k]) > 0
        /\ \A k \in 1..Len(lines) : lines[k].items # <<>>
        /\ tokens = <<>> => lines = <<>>

\* C4 witness: four tokens, two of them the same, grouped into two lines.
C4_Witness ==
    /\ lines_pc = "grouped"
    /\ Len(tokens) = 4
    /\ \E i, j \in 1..4 : i # j /\ tokens[i] = tokens[j]
    /\ Len(lines) = 2
    /\ Len(lines[1].items) = 3

\* C4 witness of the edge case: no token, no line.
C4_WitnessEmpty ==
    /\ lines_pc = "grouped"
    /\ tokens = <<>>
    /\ lines = <<>>

\* C5: after grouping, the y centres of the lines do not decrease from line
\* to line, and within a line the left edges of the tokens do not decrease.
C5_Order ==
    lines_pc = "grouped" =>
        /\ \A k \in 1..(Len(lines) - 1) : lines[k].y <= lines[k + 1].y
        /\ \A k \in 1..Len(lines) :
              \A i \in 1..(Len(lines[k].items) - 1) :
                  left_x(lines[k].items[i]) <= left_x(lines[k].items[i + 1])

\* C5 witness: the OCR delivered a lower token before a higher one and a
\* right token before a left one of the same height; several lines came out,
\* one of them with a median centre that is no token's own.
C5_Witness ==
    /\ lines_pc = "grouped"
    /\ Len(tokens) = 4
    /\ mid_y(tokens[1]) > mid_y(tokens[2])
    /\ left_x(tokens[3]) > left_x(tokens[4])
    /\ mid_y(tokens[3]) = mid_y(tokens[4])
    /\ Len(lines) >= 2
    /\ \E k \in 1..Len(lines) :
          /\ Len(lines[k].items) >= 2
          /\ \A i \in 1..Len(lines[k].items) : mid_y(lines[k].items[i]) # lines[k].y

\* ------------------------------------------------------------------------
\* bool_from_checkboxes_near as a state machine
\* ------------------------------------------------------------------------

MaxBoxes == 3

\* the checkboxes the detector of the model can deliver: at the height of the
\* anchor in one of three places right of it, filled or not, with a near
\* label "yes" or "no" or none; and filled ones three rows below
BoxPool ==
    {Checkbox(x, 0, 10, 10, f, l) :
        x \in {40, 70, 100}, f \in BOOLEAN, l \in {None, Str(w_yes), Str(w_no)}}
    \cup {Checkbox(40, 90, 10, 10, TRUE, Str(w_yes)), Checkbox(70, 90, 10, 10, TRUE, None)}

\* no anchor, or an anchor of height 10 at the top of the page
AnchorRects == {<<>>, <<0, 0, 20, 10>>}

BoxInit ==
    /\ box_anchor \in AnchorRects
    /\ boxes = <<>>
    /\ box_value = None
    /\ box_pc = "detect"
    /\ DocIdle /\ LinesIdle /\ CutIdle /\ AnchorIdle /\ PersonIdle /\ AreaIdle /\ PageIdle /\ DedupeIdle /\ NearIdle /\ FrameIdle /\ RunIdle

\* the detector delivers one more checkbox, at a place where it has none yet
DetectCheckbox ==
    /\ box_pc = "detect"
    /\ Len(boxes) < MaxBoxes
    /\ \E b \in BoxPool :
          /\ \A k \in 1..Len(boxes) : boxes[k].bbox # b.bbox
          /\ boxes' = Append(boxes, b)
    /\ UNCHANGED <<box_anchor, box_value, box_pc>>
    /\ UNCHANGED NotBox

\* bool_from_checkboxes_near(anchor_rect, m2_page)
ResolveCheckboxes ==
    /\ box_pc = "detect"
    /\ box_value' = bool_from_checkboxes_near(box_anchor,
                        [checkboxes |-> boxes, signatures |-> <<>>, stamps |-> <<>>])
    /\ box_pc' = "resolved"
    /\ UNCHANGED <<box_anchor, boxes>>
    /\ UNCHANGED NotBox

BoxNext == DetectCheckbox \/ ResolveCheckboxes

SpecBox == BoxInit /\ [][BoxNext]_vars

\* the centre of a checkbox lies in the band of the anchor
InBand(b) == Abs(mid_y(b) - (box_anchor[2] + box_anchor[4]) \div 2) <= Band(box_anchor)

\* two checkboxes, both in the band of the anchor, the left one labelled
\* "yes", the right one labelled "no"; l and r are their places in the
\* detector's list
YesNoPair(l, r) ==
    /\ box_anchor # <<>>
    /\ Len(boxes) = 2
    /\ {l, r} = {1, 2}
    /\ InBand(boxes[l]) /\ InBand(boxes[r])
    /\ left_x(boxes[l]) < left_x(boxes[r])
    /\ boxes[l].near_label = Str(w_yes)
    /\ boxes[r].near_label = Str(w_no)

\* C6: for a "yes" box left of a "no" box in the band of the anchor, the value
\* is true when the left box is filled and the right one is not, and null when
\* both are filled or both are empty.
C6_PairResolution ==
    box_pc = "resolved" =>
        \A l, r \in {1, 2} :
            YesNoPair(l, r) =>
                /\ (boxes[l].filled /\ ~boxes[r].filled) => box_value = Bool(TRUE)
                /\ (boxes[l].filled = boxes[r].filled) => box_value = None

\* ------------------------------------------------------------------------
\* cut_at_next_label as a state machine
\* ------------------------------------------------------------------------

MaxChunks == 4

t_Tehsil == <<"T","e","h","s","i","l">>

\* what the harvest of the model is pieced together from: stop labels and
\* parts of stop labels, blanks, and characters that join or part words
Chunks ==
    {t_x, <<" ">>, <<"_">>, <<"-">>, w_gp, t_Tehsil, w_self, w_cultivation}

CutInit ==
    /\ cut_text = <<>>
    /\ cut_once = <<>>
    /\ cut_twice = <<>>
    /\ cut_pc = "harvest"
    /\ DocIdle /\ LinesIdle /\ BoxIdle /\ AnchorIdle /\ PersonIdle /\ AreaIdle /\ PageIdle /\ DedupeIdle /\ NearIdle /\ FrameIdle /\ RunIdle

\* the harvest grows
HarvestChunk ==
    /\ cut_pc = "harvest"
    /\ Len(cut_text) < MaxChunks
    /\ \E c \in Chunks : cut_text' = Append(cut_text, c)
    /\ UNCHANGED <<cut_once, cut_twice, cut_pc>>
    /\ UNCHANGED NotCut

\* cut_at_next_label(text)
CutText ==
    /\ cut_pc = "harvest"
    /\ cut_once' = cut_at_next_label(Flatten(cut_text))
    /\ cut_pc' = "cut"
    /\ UNCHANGED <<cut_text, cut_twice>>
    /\ UNCHANGED NotCut

\* cut_at_next_label applied to its own result
CutAgain ==
    /\ cut_pc = "cut"
    /\ cut_twice' = cut_at_next_label(cut_once)
    /\ cut_pc' = "recut"
    /\ UNCHANGED <<cut_text, cut_once>>
    /\ UNCHANGED NotCut

CutNext == HarvestChunk \/ CutText \/ CutAgain

SpecCut == CutInit /\ [][CutNext]_vars

\* C7: a text that was cut is left as it is by a second cut, and holds no stop
\* label.
C7_CutIdempotent ==
    /\ cut_pc = "recut" => cut_twice = cut_once
    /\ cut_pc \in {"cut", "recut"} => Search(STOP_LABEL_PAT, cut_once, TRUE) = NoMatch

\* C7 witness: the harvest went on after a value into a stop label; the cut
\* kept the value, and the second cut kept it again.
C7_Witness ==
    /\ cut_pc = "recut"
    /\ cut_text = <<t_x, <<" ">>, w_self, w_cultivation>>
    /\ cut_once = t_x
    /\ cut_twice = t_x

\* ------------------------------------------------------------------------
\* find_anchor_item as a state machine
\* ------------------------------------------------------------------------

MaxAnchorItems == 3

t_tehsil_label == <<"T","e","h","s","i","l"," ","/"," ","T","a","l","u","k","a">>

\* the items the OCR of the model can deliver: two labels, a word of a label
\* and a value, each at the top of the page or one row below
AnchorPool ==
    {Item(t, 90, 0, y, 20, 10) : t \in {t_village_label, t_tehsil_label, w_village, t_x}, y \in {0, 30}}

AnchorKeys == {"village", "tehsil_taluka"}

AnchorInit ==
    /\ anchor_items = <<>>
    /\ anchor_key \in AnchorKeys
    /\ anchor_found = None
    /\ anchor_again = None
    /\ anchor_pc = "ocr"
    /\ DocIdle /\ LinesIdle /\ BoxIdle /\ CutIdle /\ PersonIdle /\ AreaIdle /\ PageIdle /\ DedupeIdle /\ NearIdle /\ FrameIdle /\ RunIdle

\* the OCR engine delivers one more item
OcrAnchorItem ==
    /\ anchor_pc = "ocr"
    /\ Len(anchor_items) < MaxAnchorItems
    /\ \E it \in AnchorPool : anchor_items' = Append(anchor_items, it)
    /\ UNCHANGED <<anchor_key, anchor_found, anchor_again, anchor_pc>>
    /\ UNCHANGED NotAnchor

\* find_anchor_item(items, ANCHORS[key])
FindAnchor ==
    /\ anchor_pc = "ocr"
    /\ anchor_found' = find_anchor_item(anchor_items, ANCHORS[anchor_key])
    /\ anchor_pc' = "found"
    /\ UNCHANGED <<anchor_items, anchor_key, anchor_again>>
    /\ UNCHANGED NotAnchor

\* the same call once more
FindAnchorAgain ==
    /\ anchor_pc = "found"
    /\ anchor_again' = find_anchor_item(anchor_items, ANCHORS[anchor_key])
    /\ anchor_pc' = "again"
    /\ UNCHANGED <<anchor_items, anchor_key, anchor_found>>
    /\ UNCHANGED NotAnchor

AnchorNext == OcrAnchorItem \/ FindAnchor \/ FindAnchorAgain

SpecAnchor == AnchorInit /\ [][AnchorNext]_vars

\* the places of the items whose normalized text matches a pattern of the field
AnchorHits ==
    {k \in 1..Len(anchor_items) :
        \E n \in 1..Len(ANCHORS[anchor_key]) :
            Search(ANCHORS[anchor_key][n], normalize(anchor_items[k].text), TRUE) # NoMatch}

\* C8: the item returned is the first item, in the order of the list, whose
\* normalized text matches a pattern of the field, none when no item matches,
\* and a second call on the same list returns the same item.
C8_FirstMatch ==
    /\ anchor_pc \in {"found", "again"} =>
          IF AnchorHits = {} THEN anchor_found = None
          ELSE anchor_found = anchor_items[SetMin(AnchorHits)]
    /\ anchor_pc = "again" => anchor_again = anchor_found

\* C8 witness: a value, then two different items that both match; the first
\* of the two is returned, twice.
C8_Witness ==
    /\ anchor_pc = "again"
    /\ AnchorHits = {2, 3}
    /\ anchor_items[2] # anchor_items[3]
    /\ anchor_found = anchor_items[2]
    /\ anchor_again = anchor_items[2]

\* C8 witness of no match: items, none of which matches; none is returned.
C8_WitnessNone ==
    /\ anchor_pc = "found"
    /\ Len(anchor_items) = 3
    /\ AnchorHits = {}
    /\ anchor_found = None

\* ------------------------------------------------------------------------
\* sanitize_person_value as a state machine
\* ------------------------------------------------------------------------

t_kumar == <<"k","u","m","a","r">>

t_12 == <<"1","2">>

t_sh_ram_kumar == <<"s","h"," ","r","a","m"," ","k","u","m","a","r">>

\* the words right of a name label on a form, in reading order
PersonWords == <<w_sh_, w_ram, t_kumar, w_house, w_no, t_12, w_village, t_x>>

PersonInit ==
    /\ person_raw = <<>>
    /\ person_next = 1
    /\ person_value = <<>>
    /\ person_pc = "harvest"
    /\ DocIdle /\ LinesIdle /\ BoxIdle /\ CutIdle /\ AnchorIdle /\ AreaIdle /\ PageIdle /\ DedupeIdle /\ NearIdle /\ FrameIdle /\ RunIdle

\* the next word of the form is in the window and joins the harvest
HarvestWord ==
    /\ person_pc = "harvest"
    /\ person_next <= Len(PersonWords)
    /\ person_raw' = IF person_raw = <<>> THEN PersonWords[person_next]
                     ELSE person_raw \o <<" ">> \o PersonWords[person_next]
    /\ person_next' = person_next + 1
    /\ UNCHANGED <<person_value, person_pc>>
    /\ UNCHANGED NotPerson

\* the next word of the form was not read
MissWord ==
    /\ person_pc = "harvest"
    /\ person_next <= Len(PersonWords)
    /\ person_next' = person_next + 1
    /\ UNCHANGED <<person_raw, person_value, person_pc>>
    /\ UNCHANGED NotPerson

\* sanitize_person_value(raw)
SanitizePerson ==
    /\ person_pc = "harvest"
    /\ person_value' = sanitize_person_value(person_raw)
    /\ person_pc' = "sanitized"
    /\ UNCHANGED <<person_raw, person_next>>
    /\ UNCHANGED NotPerson

PersonNext == HarvestWord \/ MissWord \/ SanitizePerson

SpecPerson == PersonInit /\ [][PersonNext]_vars

\* the characters of punctuation the harvests of the model hold
Punctuation == {".", ",", ":", "/", "(", ")", "[", "]"}

\* C9: the sanitized value holds none of the structural words, no digit and no
\* punctuation, and at most 3 tokens; the harvest
\* "sh. ram kumar house no 12 village x" gives "sh ram kumar".
C9_PersonSanitized ==
    person_pc = "sanitized" =>
        /\ Len(SplitWs(person_value)) <= 3
        /\ \A k \in 1..Len(person_value) : person_value[k] \notin Digit \cup Punctuation
        /\ \A k \in 1..Len(SplitWs(person_value)) :
              SplitWs(person_value)[k] \notin {w_house, w_village}
        /\ person_raw = Join(PersonWords, <<" ">>) => person_value = t_sh_ram_kumar

\* ------------------------------------------------------------------------
\* number_after_keyword_with_ha as a state machine
\* ------------------------------------------------------------------------

MaxRows == 3

t_0_25 == <<"0",".","2","5">>

t_2 == <<"2">>

t_3 == <<"3">>

t_hall == <<"h","a","l","l">>

t_Habitation_colon == <<"H","a","b","i","t","a","t","i","o","n",":">>

\* forty characters without a number
t_filler == [k \in 1..40 |-> "x"]

\* the rows of words a page of the model can hold
RowPool ==
    { <<t_Habitation, t_0_25, t_ha>>,
      <<t_Habitation, t_1, t_25, t_ha>>,
      <<t_Habitation_colon>>,
      <<t_2, t_ha>>,
      <<t_Habitation, t_filler, t_3, t_ha>>,
      <<t_Habitation, t_3, t_hall>>,
      <<t_x>> }

AreaInit ==
    /\ area_rows = <<>>
    /\ area_value = None
    /\ area_pc = "ocr"
    /\ DocIdle /\ LinesIdle /\ BoxIdle /\ CutIdle /\ AnchorIdle /\ PersonIdle /\ PageIdle /\ DedupeIdle /\ NearIdle /\ FrameIdle /\ RunIdle

\* the OCR engine delivers the words of one more row
OcrRow ==
    /\ area_pc = "ocr"
    /\ Len(area_rows) < MaxRows
    /\ \E r \in RowPool : area_rows' = Append(area_rows, r)
    /\ UNCHANGED <<area_value, area_pc>>
    /\ UNCHANGED NotArea

\* the items of the rows: rows 30 apart, words 30 apart, delivered row by row
RowItems(rows) ==
    Flatten([r \in 1..Len(rows) |->
                [c \in 1..Len(rows[r]) |-> Item(rows[r][c], 90, 30 * (c - 1), 30 * (r - 1), 20, 10)]])

\* lines = group_by_lines(items, h); number_after_keyword_with_ha(lines, r"\bhabitation[:\s]*")
ParseArea ==
    /\ area_pc = "ocr"
    /\ area_value' = number_after_keyword_with_ha(group_by_lines(RowItems(area_rows), 100),
                                                  HabitationPat)
    /\ area_pc' = "parsed"
    /\ UNCHANGED area_rows
    /\ UNCHANGED NotArea

AreaNext == OcrRow \/ ParseArea

SpecArea == AreaInit /\ [][AreaNext]_vars

\* the normalized text of row r, and of rows r and r + 1 together
RowText(r) == normalize(Join(area_rows[r], <<" ">>))

PairText(r) == normalize(Join(area_rows[r] \o area_rows[r + 1], <<" ">>))

\* a number with its unit follows a keyword of the text within the window
HasArea(txt) ==
    LET ms == FindIter(HabitationPat, txt, TRUE)
    IN  \E k \in 1..Len(ms) :
            Search(NumPat, Slice(txt, ms[k].e, Min2(Len(txt), ms[k].e + 39)), TRUE) # NoMatch

\* C10: the value is that of the first row in which a number with its unit
\* follows the keyword within the window; when there is no such row, that of
\* the first pair of adjacent rows in which one does; null when there is none.
\* A row "habitation 0.25 ha" alone gives 0.25, a row "habitation 1 25 ha"
\* alone gives 1.25.
C10_AreaParsing ==
    area_pc = "parsed" =>
        LET rows  == {r \in 1..Len(area_rows) : HasArea(RowText(r))}
            pairs == {r \in 1..(Len(area_rows) - 1) : HasArea(PairText(r))}
        IN  /\ rows # {} => area_value = NumberInText(Join(area_rows[SetMin(rows)], <<" ">>), HabitationPat)
            /\ rows = {} /\ pairs # {} =>
                  area_value = NumberInText(Join(area_rows[SetMin(pairs)] \o area_rows[SetMin(pairs) + 1],
                                                 <<" ">>), HabitationPat)
            /\ (rows = {} /\ pairs = {}) <=> area_value = None
            /\ area_rows = << <<t_Habitation, t_0_25, t_ha>> >> => area_value = Float(25, 2)
            /\ area_rows = << <<t_Habitation, t_1, t_25, t_ha>> >> => area_value = Float(125, 2)

\* C10 witness: a keyword alone in a row, "2 ha" in the next row, and
\* "habitation 1 25 ha" in the third; the value is 1.25, that of the third row,
\* not the 2 of the first pair of rows.
C10_Witness ==
    /\ area_pc = "parsed"
    /\ area_rows = << <<t_Habitation_colon>>, <<t_2, t_ha>>, <<t_Habitation, t_1, t_25, t_ha>> >>
    /\ area_value = Float(125, 2)

\* C10 witness of a pair: a keyword alone in a row and "2 ha" in the next give 2.
C10_WitnessPair ==
    /\ area_pc = "parsed"
    /\ area_rows = << <<t_Habitation_colon>>, <<t_2, t_ha>> >>
    /\ area_value = Float(2, 0)

\* C10 witness of null: the number lies beyond the window, or no unit follows it.
C10_WitnessNone ==
    /\ area_pc = "parsed"
    /\ area_rows = << <<t_Habitation, t_filler, t_3, t_ha>>, <<t_Habitation, t_3, t_hall>> >>
    /\ area_value = None

\* ------------------------------------------------------------------------
\* Null and empty values of the page results and of the document record
\* ------------------------------------------------------------------------

\* the fields that hold a text
StringKeys ==
    {"claimant_name", "spouse_name", "father_name", "mother_name", "address",
     "village", "gram_panchayat", "tehsil_taluka", "district"}

\* a Python list: a sequence, which None is not
IsList(v) == DOMAIN v = 1..Len(v)

\* no text field of the record f is the empty text, and other_members is a list
NullNotEmpty(f) ==
    /\ \A k \in StringKeys : f[k] # Str(<<>>)
    /\ IsList(f.other_members)

\* C11: in every page result and in the merged record, at every point of the
\* merge, no string field holds the empty string (an absent one is null) and
\* other_members is a list, never null.
C11_NullNotEmpty ==
    /\ \A i \in 1..Len(pages) : NullNotEmpty(pages[i].fields)
    /\ NullNotEmpty(merged)

\* C11 witness: a document with the page whose name harvest is "25" and whose
\* address harvest is ","; both sanitize to nothing, and the finished record
\* has them null and other_members empty.
C11_Witness ==
    /\ doc_pc = "done"
    /\ \E i \in 1..Len(pages) : pages[i].image = BarePage
    /\ merged.claimant_name = None
    /\ merged.address = None
    /\ merged.other_members = <<>>

\* ------------------------------------------------------------------------
\* extract_page_fields as a state machine
\* ------------------------------------------------------------------------

MaxFormItems == 3

MaxFormBoxes == 2

t_village_inline == t_village_label \o <<":"," ","x"," ","g","p">>

t_fm_label == <<"N","a","m","e"," ","o","f"," ","F","a","t","h","e","r","/","M","o","t","h","e","r">>

t_No == <<"N","o">>

\* the tokens of a form with four rows, in reading order: a village label
\* (bare, or with its value inline), a value and a label word right of it, a
\* scheduled-tribe label with Yes and No right of it, a father/mother label
\* with nothing right of it, the next label below it, and a Yes right of that
FormPool ==
    << LabelAt(t_village_label, 0), LabelAt(t_village_inline, 0),
       ValueAt(t_x, 1, 0), ValueAt(w_district, 2, 0),
       LabelAt(t_st_label, 1), ValueAt(t_Yes, 1, 1), ValueAt(t_No, 2, 1),
       LabelAt(t_fm_label, 2),
       LabelAt(t_otfd_label, 3), ValueAt(t_Yes, 1, 3) >>

\* the checkboxes right of the scheduled-tribe label, left to right
FormBoxPool ==
    << Checkbox(40, 30, 10, 10, TRUE, None),
       Checkbox(70, 30, 10, 10, FALSE, None),
       Checkbox(70, 30, 10, 10, TRUE, None) >>

Signature == [bbox |-> quad_from_xywh(100, 80, 40, 15)]

\* page_meta of an image of 200 by 100, and page_meta without a size
PageMetas == {[page_number |-> 1, width |-> 200, height |-> 100], NoMeta}

\* where x is in the pool
PoolIndex(pool, x) == CHOOSE i \in 1..Len(pool) : pool[i] = x

\* the entries of the pool that come after the last of xs
After(pool, xs) ==
    {i \in 1..Len(pool) : xs = <<>> \/ i > PoolIndex(pool, xs[Len(xs)])}

\* claim_raw ... district_raw, fm_raw and om_raw
RawTexts(items, w, h) ==
    [k \in RawKeys |->
        IF k = "father_mother" THEN FatherMotherRaw(items, w, h)
        ELSE get_after(items, k, w, h).text]

\* st_box and ot_box as they are assigned to the fields
SourceBools(items, m2_page, w, h) ==
    [st_box |-> BoolNear(items, get_after(items, "scheduled_tribe", w, h).rect, m2_page, w, h),
     ot_box |-> BoolNear(items, get_after(items, "otfd", w, h).rect, m2_page, w, h)]

\* m2_page of the detections
M2Page(boxes_, sigs) == [checkboxes |-> boxes_, signatures |-> sigs, stamps |-> <<>>]

PageInit ==
    /\ form_items = <<>>
    /\ form_boxes = <<>>
    /\ form_sigs = <<>>
    /\ form_meta = NoMeta
    /\ form_raw = NoRaw
    /\ form_bools = NoBools
    /\ form_fields = EmptyFields
    /\ form_pc = "ocr"
    /\ DocIdle /\ LinesIdle /\ BoxIdle /\ CutIdle /\ AnchorIdle /\ PersonIdle /\ AreaIdle /\ DedupeIdle /\ NearIdle /\ FrameIdle /\ RunIdle

\* the OCR reads the next token of the form
OcrFormItem ==
    /\ form_pc = "ocr"
    /\ Len(form_items) < MaxFormItems
    /\ \E i \in After(FormPool, form_items) : form_items' = Append(form_items, FormPool[i])
    /\ UNCHANGED <<form_boxes, form_sigs, form_meta, form_raw, form_bools, form_fields, form_pc>>
    /\ UNCHANGED NotPage

\* the detector finds the next checkbox of the form, at a place where it has
\* found none
DetectFormBox ==
    /\ form_pc = "ocr"
    /\ Len(form_boxes) < MaxFormBoxes
    /\ \E i \in After(FormBoxPool, form_boxes) :
          /\ \A k \in 1..Len(form_boxes) : form_boxes[k].bbox # FormBoxPool[i].bbox
          /\ form_boxes' = Append(form_boxes, FormBoxPool[i])
    /\ UNCHANGED <<form_items, form_sigs, form_meta, form_raw, form_bools, form_fields, form_pc>>
    /\ UNCHANGED NotPage

\* the detector finds the signature of the form
DetectSignature ==
    /\ form_pc = "ocr"
    /\ form_sigs = <<>>
    /\ form_sigs' = <<Signature>>
    /\ UNCHANGED <<form_items, form_boxes, form_meta, form_raw, form_bools, form_fields, form_pc>>
    /\ UNCHANGED NotPage

\* extract_page_fields(page_meta, items, m2_page)
ExtractPage ==
    /\ form_pc = "ocr"
    /\ \E meta \in PageMetas :
          /\ form_meta' = meta
          /\ form_raw' = RawTexts(form_items, PageWidth(meta), PageHeight(meta))
          /\ form_bools' = SourceBools(form_items, M2Page(form_boxes, form_sigs),
                                       PageWidth(meta), PageHeight(meta))
          /\ form_fields' = extract_page_fields(meta, form_items, M2Page(form_boxes, form_sigs))
    /\ form_pc' = "extracted"
    /\ UNCHANGED <<form_items, form_boxes, form_sigs>>
    /\ UNCHANGED NotPage

PageNext == OcrFormItem \/ DetectFormBox \/ DetectSignature \/ ExtractPage

SpecPage == PageInit /\ [][PageNext]_vars

\* C12: a page with no token and no detected shape is extracted without an
\* error, and the result has every scalar field null and other_members empty.
C12_EmptyPage ==
    (form_pc = "extracted" /\ form_items = <<>> /\ form_boxes = <<>> /\ form_sigs = <<>>) =>
        /\ \A k \in ScalarKeys : form_fields[k] = None
        /\ form_fields.other_members = <<>>

\* C12 witness: the page without a size, a token or a shape has been extracted.
C12_Witness ==
    /\ form_pc = "extracted"
    /\ form_meta = NoMeta
    /\ form_items = <<>> /\ form_boxes = <<>> /\ form_sigs = <<>>
    /\ form_fields.signature_present = None

\* ------------------------------------------------------------------------
\* The positional rule of bool_from_checkboxes_near
\* ------------------------------------------------------------------------

\* the places, in the detector's list, of the checkboxes in the band
BandBoxes == {k \in 1..Len(boxes) : InBand(boxes[k])}

\* no checkbox carries a label, so that the label rule decides nothing
Unlabelled == \A k \in 1..Len(boxes) : boxes[k].near_label = None

\* C13: with no label to go by, a value is decided only if exactly two
\* checkboxes lie in the band of the anchor and exactly one of them is filled,
\* and it is then true iff the left one is the filled one; with three or more
\* checkboxes in the band no value is decided.
C13_ExactlyTwo ==
    (box_pc = "resolved" /\ box_anchor # <<>> /\ Unlabelled) =>
        /\ box_value # None =>
              /\ Cardinality(BandBoxes) = 2
              /\ \E l, r \in BandBoxes :
                    /\ left_x(boxes[l]) <= left_x(boxes[r])
                    /\ boxes[l].filled # boxes[r].filled
                    /\ box_value = Bool(boxes[l].filled)
        /\ Cardinality(BandBoxes) >= 3 => box_value = None

\* C13, the case of two checkboxes: as C13_ExactlyTwo for the pages with at
\* most two checkboxes in the band.
C13_TwoInBand ==
    (box_pc = "resolved" /\ box_anchor # <<>> /\ Unlabelled /\ Cardinality(BandBoxes) <= 2) =>
        (box_value # None <=>
            /\ Cardinality(BandBoxes) = 2
            /\ \E l, r \in BandBoxes : boxes[l].filled # boxes[r].filled)

\* ------------------------------------------------------------------------
\* The merge of overlapping checkboxes in detect_checkboxes
\* ------------------------------------------------------------------------

MaxCandidates == 3

\* squares of side 10 in three places, the middle one overlapping both of the
\* others by 60 of 100 and the outer ones each other by 20 of 100; fill ratios
\* of 0.10, 0.50 and 0.90
CandPool == {Candidate(x, 0, 10, 10, ratio, None) : x \in {0, 4, 8}, ratio \in {10, 50, 90}}

DedupeInit ==
    /\ cand_boxes = <<>>
    /\ kept_boxes = <<>>
    /\ dedupe_pc = "contours"
    /\ DocIdle /\ LinesIdle /\ BoxIdle /\ CutIdle /\ AnchorIdle /\ PersonIdle /\ AreaIdle /\ PageIdle /\ NearIdle /\ FrameIdle /\ RunIdle

\* one pass of the loop over the contours: a square is appended to boxes
FindCandidate ==
    /\ dedupe_pc = "contours"
    /\ Len(cand_boxes) < MaxCandidates
    /\ \E b \in CandPool : cand_boxes' = Append(cand_boxes, b)
    /\ UNCHANGED <<kept_boxes, dedupe_pc>>
    /\ UNCHANGED NotDedupe

\* the merge of the duplicates, and the return
MergeCandidates ==
    /\ dedupe_pc = "contours"
    /\ kept_boxes' = MergeDuplicates(cand_boxes, Len(cand_boxes))
    /\ dedupe_pc' = "merged"
    /\ UNCHANGED cand_boxes
    /\ UNCHANGED NotDedupe

DedupeNext == FindCandidate \/ MergeCandidates

SpecDedupe == DedupeInit /\ [][DedupeNext]_vars

\* the candidates that a chain of overlaps links with those of S
RECURSIVE OverlapGroup(_)
OverlapGroup(S) ==
    LET T == S \cup {j \in 1..Len(cand_boxes) :
                        \E i \in S : Overlaps(cand_boxes[i], cand_boxes[j])}
    IN  IF T = S THEN S ELSE OverlapGroup(T)

\* no two boxes returned overlap by more than 30% of the smaller one
NoOverlapKept ==
    \A i, j \in 1..Len(kept_boxes) : i # j => ~Overlaps(kept_boxes[i], kept_boxes[j])

\* every box returned is a candidate with its own attributes, and of every
\* group of candidates a box of the highest fill ratio is returned
HighestFillKept ==
    /\ \A i \in 1..Len(kept_boxes) : \E c \in 1..Len(cand_boxes) : kept_boxes[i] = cand_boxes[c]
    /\ \A c \in 1..Len(cand_boxes) :
          \E i \in 1..Len(kept_boxes) :
              /\ \E g \in OverlapGroup({c}) : kept_boxes[i] = cand_boxes[g]
              /\ \A g \in OverlapGroup({c}) : kept_boxes[i].fill_ratio >= cand_boxes[g].fill_ratio

\* C14: whatever the order of the candidates, no two checkboxes returned
\* overlap by more than 30% of the smaller one's area, and every group of
\* overlapping candidates is returned as its member of the highest fill ratio,
\* box and attributes.
C14_Deduplicated == dedupe_pc = "merged" => (NoOverlapKept /\ HighestFillKept)

\* C14, the part about the attributes: every group of overlapping candidates
\* has its member of the highest fill ratio returned, box and attributes.
C14_HighestFill == dedupe_pc = "merged" => HighestFillKept

\* ------------------------------------------------------------------------
\* The harvested texts of extract_page_fields
\* ------------------------------------------------------------------------

\* the text holds a stop label
HasStopLabel(text_) == Search(STOP_LABEL_PAT, text_, TRUE) # NoMatch

\* C15: no text that extract_page_fields hands to a sanitizer or a parser
\* holds a stop label, whether it was harvested right of the anchor, after the
\* colon inside the anchor, or below the anchor (father/mother).
C15_StopCut ==
    form_pc = "extracted" => \A k \in RawKeys : ~HasStopLabel(form_raw[k])

\* ------------------------------------------------------------------------
\* The collection functions as a state machine
\* ------------------------------------------------------------------------

MaxNearItems == 3

t_yesterday == <<"y","e","s","t","e","r","d","a","y">>

t_a == <<"a">>

\* the tokens of a page of three rows (y = 0, 30, 60) in the order the OCR
\* gives them, the middle row first: in each row a token left of the window,
\* one in it and one far right; a token a little below the first row
NearPool ==
    << Item(t_Yes, 90, 30, 30, 10, 10), Item(t_No, 90, 100, 30, 10, 10), Item(t_a, 90, 0, 30, 10, 10),
       Item(t_No, 90, 30, 0, 10, 10), Item(t_Yes, 90, 100, 0, 10, 10), Item(t_yesterday, 90, 0, 0, 10, 10),
       Item(t_a, 90, 30, 8, 10, 10),
       Item(t_Yes, 90, 30, 60, 10, 10), Item(t_No, 90, 100, 60, 10, 10), Item(t_a, 90, 0, 60, 10, 10) >>

\* the rectangle of a label at the left of the first row, of the second row
NearAnchors == {<<0, 0, 20, 10>>, <<0, 30, 20, 40>>}

NearWidths == {100, 200}

NearHeight == 100

NearInit ==
    /\ near_items = <<>>
    /\ near_anchor \in NearAnchors
    /\ near_w \in NearWidths
    /\ near_right = <<>>
    /\ near_below = <<>>
    /\ near_answer = None
    /\ near_pc = "ocr"
    /\ DocIdle /\ LinesIdle /\ BoxIdle /\ CutIdle /\ AnchorIdle /\ PersonIdle /\ AreaIdle /\ PageIdle /\ DedupeIdle /\ FrameIdle /\ RunIdle

\* the OCR reads the next token of the page
OcrNearItem ==
    /\ near_pc = "ocr"
    /\ Len(near_items) < MaxNearItems
    /\ \E i \in After(NearPool, near_items) : near_items' = Append(near_items, NearPool[i])
    /\ UNCHANGED <<near_anchor, near_w, near_right, near_below, near_answer, near_pc>>
    /\ UNCHANGED NotNear

\* collect_right_bounded(items, anchor_rect, page_w, page_h)
CollectRight ==
    /\ near_pc = "ocr"
    /\ near_right' = collect_right_bounded(near_items, near_anchor, near_w, NearHeight)
    /\ near_pc' = "right"
    /\ UNCHANGED <<near_items, near_anchor, near_w, near_below, near_answer>>
    /\ UNCHANGED NotNear

\* collect_below_same_column(items, anchor_rect, page_w, page_h)
CollectBelow ==
    /\ near_pc = "ocr"
    /\ near_below' = collect_below_same_column(near_items, near_anchor, near_w, NearHeight)
    /\ near_pc' = "below"
    /\ UNCHANGED <<near_items, near_anchor, near_w, near_right, near_answer>>
    /\ UNCHANGED NotNear

\* yes_no_from_near_text(items, anchor_rect, page_w, page_h)
ScanYesNo ==
    /\ near_pc = "ocr"
    /\ near_answer' = yes_no_from_near_text(near_items, near_anchor, near_w, NearHeight)
    /\ near_pc' = "scanned"
    /\ UNCHANGED <<near_items, near_anchor, near_w, near_right, near_below>>
    /\ UNCHANGED NotNear

NearNext == OcrNearItem \/ CollectRight \/ CollectBelow \/ ScanYesNo

SpecNear == NearInit /\ [][NearNext]_vars

\* the token's left edge x is in the window of the claim:
\* anchor_right + gap < x <= anchor_right + max(gap, page_width * 0.45)
InRightWindow(it, anchor_rect, page_w) ==
    /\ left_x(it) > anchor_rect[3] + XGap
    /\ 100 * (left_x(it) - anchor_rect[3]) <= Max2(100 * XGap, 45 * page_w)

\* the tokens of a line that are in the window, in the line's order
WindowOfLine(ln, anchor_rect, page_w) ==
    SelectSeq(ln.items, LAMBDA it : InRightWindow(it, anchor_rect, page_w))

\* the tokens of the anchor's line idx that are in the window when there are
\* any, else those of line idx + 1 when there is one, else none
SingleLineHarvest(lines_, idx, anchor_rect, page_w) ==
    IF idx = 0 THEN <<>>
    ELSE IF WindowOfLine(lines_[idx], anchor_rect, page_w) # <<>>
    THEN WindowOfLine(lines_[idx], anchor_rect, page_w)
    ELSE IF idx + 1 <= Len(lines_) THEN WindowOfLine(lines_[idx + 1], anchor_rect, page_w)
    ELSE <<>>

\* the line of the anchor among the lines of the page
NearLineOf(lines_) == NearestLine(lines_, (near_anchor[2] + near_anchor[4]) \div 2)

NearLines == group_by_lines(near_items, NearHeight)

\* C16: every token collect_right_bounded returns has its left edge in the
\* window right of the anchor, and the tokens returned are those of one line:
\* the window tokens of the anchor's line when it has any, else the window
\* tokens of the line right after it; no other line gives a token.
C16_RightBounded ==
    near_pc = "right" =>
        /\ \A k \in 1..Len(near_right) : InRightWindow(near_right[k], near_anchor, near_w)
        /\ near_right = SingleLineHarvest(NearLines, NearLineOf(NearLines), near_anchor, near_w)

\* C16: the anchor's line has tokens but none in the window, and the tokens
\* returned come from the line after it
C16_Witness ==
    /\ near_pc = "right"
    /\ near_right # <<>>
    /\ Len(NearLines) >= 2
    /\ WindowOfLine(NearLines[NearLineOf(NearLines)], near_anchor, near_w) = <<>>
    /\ near_right = WindowOfLine(NearLines[NearLineOf(NearLines) + 1], near_anchor, near_w)

\* C16: both the anchor's line and the line after it have tokens in the
\* window, and only those of the anchor's line are returned
C16_FirstLineOnly ==
    near_pc = "right"
        /\ Len(NearLines) >= 2
        /\ NearLineOf(NearLines) < Len(NearLines)
        /\ WindowOfLine(NearLines[NearLineOf(NearLines) + 1], near_anchor, near_w) # <<>>
        /\ near_right = WindowOfLine(NearLines[NearLineOf(NearLines)], near_anchor, near_w)
        /\ near_right # <<>>

\* the checkbox result for the anchor item it when there is one, else the
\* result of the text scan
BoxElseScan(box, items, it, w, h) ==
    IF box # None THEN box ELSE yes_no_from_near_text(items, rect_from_bbox(it.bbox), w, h)

\* the value the precedence of the sources gives for an anchor item, None
\* when there is no anchor
BySourcePrecedence(items, it, m2_page, w, h) ==
    IF it = None THEN None
    ELSE BoxElseScan(bool_from_checkboxes_near(rect_from_bbox(it.bbox), m2_page), items, it, w, h)

\* the value the precedence gives for a field of the page extracted
FormPrecedence(key) ==
    BySourcePrecedence(form_items, find_anchor_item(form_items, ANCHORS[key]),
                       M2Page(form_boxes, form_sigs), PageWidth(form_meta), PageHeight(form_meta))

\* C17: for scheduled_tribe and otfd the value assigned is the checkbox result
\* whenever that is not null, the result of the yes/no text scan when the
\* checkbox result is null and the anchor was found, and null when no anchor
\* is found; scheduled_tribe is returned as assigned.
C17_SourcePrecedence ==
    form_pc = "extracted" =>
        /\ form_bools.st_box = FormPrecedence("scheduled_tribe")
        /\ form_bools.ot_box = FormPrecedence("otfd")
        /\ form_fields.scheduled_tribe = form_bools.st_box

\* the checkbox result and the text scan result at the scheduled-tribe anchor
FormStBox ==
    bool_from_checkboxes_near(rect_from_bbox(find_anchor_item(form_items, ANCHORS["scheduled_tribe"]).bbox),
                              M2Page(form_boxes, form_sigs))

FormStScan ==
    yes_no_from_near_text(form_items,
                          rect_from_bbox(find_anchor_item(form_items, ANCHORS["scheduled_tribe"]).bbox),
                          PageWidth(form_meta), PageHeight(form_meta))

\* C17: the checkboxes at the scheduled-tribe anchor say yes, the text next
\* to it says no, and the field is true
C17_Witness ==
    /\ form_pc = "extracted"
    /\ find_anchor_item(form_items, ANCHORS["scheduled_tribe"]) # None
    /\ FormStBox = Bool(TRUE)
    /\ FormStScan = Bool(FALSE)
    /\ form_fields.scheduled_tribe = Bool(TRUE)

\* C17: no checkbox decides, the anchor is found, and the text scan gives the
\* value
C17_WitnessScan ==
    /\ form_pc = "extracted"
    /\ find_anchor_item(form_items, ANCHORS["scheduled_tribe"]) # None
    /\ FormStBox = None
    /\ FormStScan # None
    /\ form_fields.scheduled_tribe = FormStScan

\* C17: the page has tokens and checkboxes but no otfd anchor, and otfd is null
C17_WitnessNoAnchor ==
    /\ form_pc = "extracted"
    /\ form_items # <<>>
    /\ form_boxes # <<>>
    /\ find_anchor_item(form_items, ANCHORS["otfd"]) = None
    /\ form_fields.otfd = None

\* the word stands in the text with no word character on either side of it
IsolatedIn(text_, word) ==
    \E i \in 1..(Len(text_) - Len(word) + 1) :
        /\ SubSeq(text_, i, i + Len(word) - 1) = word
        /\ ~IsWordAt(text_, i - 1)
        /\ ~IsWordAt(text_, i + Len(word))

\* the elements of a list
ElemsOf(list) == {list[k] : k \in 1..Len(list)}

\* the tokens of the anchor's line and of the line right after it
NearScanned ==
    {it \in ElemsOf(near_items) :
        \E i \in 1..Len(NearLines) :
            /\ i \in {NearLineOf(NearLines), NearLineOf(NearLines) + 1}
            /\ it \in ElemsOf(NearLines[i].items)}

\* a token scanned holds the isolated word
NearSays(word) == \E it \in NearScanned : IsolatedIn(normalize(it.text), word)

\* C18: yes_no_from_near_text answers from the tokens of the anchor's line and
\* of the line right after it alone: true when an isolated "yes" stands there
\* and no "no", false when a "no" and no "yes", null when both or neither.
C18_YesNoScan ==
    near_pc = "scanned" =>
        near_answer = IF NearSays(w_yes) /\ ~NearSays(w_no) THEN Bool(TRUE)
                      ELSE IF NearSays(w_no) /\ ~NearSays(w_yes) THEN Bool(FALSE)
                      ELSE None

\* C18: the answer is true with a "yes" on the line after the anchor's, a
\* "yesterday" on the anchor's line and a "no" on a line that is not scanned
C18_Witness ==
    /\ near_pc = "scanned"
    /\ near_answer = Bool(TRUE)
    /\ \E it \in ElemsOf(near_items) \ NearScanned : IsolatedIn(normalize(it.text), w_no)
    /\ \E it \in NearScanned : it.text = t_yesterday

\* C18: both words stand in the lines scanned and the answer is null
C18_WitnessBoth ==
    /\ near_pc = "scanned"
    /\ near_answer = None
    /\ NearSays(w_yes)
    /\ NearSays(w_no)

\* the anchor item of a field on the page extracted
FormAnchor(k) == find_anchor_item(form_items, ANCHORS[k])

\* the windows of the field give no token: the window right of the anchor,
\* and for father/mother the column below it as well
NoWindowTokens(k, it, w, h) ==
    /\ collect_right_bounded(form_items, rect_from_bbox(it.bbox), w, h) = <<>>
    /\ k = "father_mother" =>
          collect_below_same_column(form_items, rect_from_bbox(it.bbox), w, h) = <<>>

\* the anchor item it of the field is found and its windows give no token
EmptyHarvestAt(k, it) ==
    /\ it # None
    /\ NoWindowTokens(k, it, PageWidth(form_meta), PageHeight(form_meta))

EmptyHarvest(k) == EmptyHarvestAt(k, FormAnchor(k))

\* the text without the white space at its start
RECURSIVE SkipSpace(_)
SkipSpace(text_) ==
    IF text_ # <<>> /\ text_[1] \in WS THEN SkipSpace(Tail(text_)) ELSE text_

\* the text after the first colon of a text that has one
AfterFirstColon(text_) ==
    SkipSpace(SubSeq(text_, 1 + CHOOSE i \in 1..Len(text_) :
                                    text_[i] = ":" /\ \A j \in 1..(i - 1) : text_[j] # ":",
                     Len(text_)))

HasColon(text_) == \E i \in 1..Len(text_) : text_[i] = ":"

\* the fields of the result that are made of the raw text of k are null
ResolvesNull(k) ==
    IF k = "father_mother" THEN form_fields.father_name = None /\ form_fields.mother_name = None
    ELSE IF k = "other_members" THEN form_fields.other_members = <<>>
    ELSE form_fields[k] = None

\* the value the sanitizer of a location field gives for a raw text
SanitizedAs(k, raw) ==
    CASE k = "address"        -> OrNone(sanitize_address_value(raw))
      [] k = "village"        -> sanitize_village_value(raw)
      [] k = "gram_panchayat" -> sanitize_gp_value(raw)
      [] k = "tehsil_taluka"  -> sanitize_required_suffix(raw, w_taluka, TalukaKeep)
      [] k = "district"       -> sanitize_required_suffix(raw, w_district, DistrictKeep)

LocationKeys == {"address", "village", "gram_panchayat", "tehsil_taluka", "district"}

\* with an empty harvest at the anchor item it, the raw text of the field is
\* the text after the first colon of it, or empty and the field null
InlineOrNull(k, it) ==
    EmptyHarvestAt(k, it) =>
        IF HasColon(it.text) THEN form_raw[k] = AfterFirstColon(it.text)
        ELSE form_raw[k] = <<>> /\ ResolvesNull(k)

\* C19: when the anchor of a field is found and its windows give no token,
\* the raw text of the field is the text after the first colon of the anchor
\* token when that has a colon, and else the raw text is empty and the field
\* is null; every location field is what its sanitizer makes of its own raw
\* text, whatever the harvest of the other fields.
C19_EmptyHarvest ==
    form_pc = "extracted" =>
        /\ \A k \in RawKeys : InlineOrNull(k, FormAnchor(k))
        /\ \A k \in LocationKeys : form_fields[k] = SanitizedAs(k, form_raw[k])

\* C19: the village anchor has no token in its window and no colon, village is
\* null, and scheduled_tribe of the same page is read
C19_Witness ==
    /\ form_pc = "extracted"
    /\ EmptyHarvest("village")
    /\ ~HasColon(FormAnchor("village").text)
    /\ form_fields.village = None
    /\ form_fields.scheduled_tribe # None

\* C19: the village anchor has no token in its window and holds a colon, and
\* the raw text is the text after the colon
C19_WitnessInline ==
    /\ form_pc = "extracted"
    /\ EmptyHarvest("village")
    /\ HasColon(FormAnchor("village").text)
    /\ form_raw.village # <<>>
    /\ form_fields.village # None

\* ------------------------------------------------------------------------
\* Lists and dicts by reference: what the calls do to their arguments
\* ------------------------------------------------------------------------

\* a new object; its address is Len(heap_) + 1
py_new(heap_, v) == Append(heap_, v)

\* list.append(x) on the list at address a
py_append(heap_, a, x) == [heap_ EXCEPT ![a] = Append(@, x)]

\* the items sorted by mid_y
ByMidY(list) == SortedByKey([k \in 1..Len(list) |-> <<mid_y(list[k]), list[k]>>])

\* the list at address a is sorted where it lies, and a copy is handed on
sorted_by_mid_y_InPlace(heap_, a) == py_new([heap_ EXCEPT ![a] = ByMidY(@)], ByMidY(heap_[a]))

\* sorted(items, key=mid_y): a new list, the list at address a is left alone
sorted_by_mid_y(heap_, a) == py_new(heap_, ByMidY(heap_[a]))

\* list.sort(key=left edge) on the list at address a
sort_by_left_x(heap_, a) ==
    [heap_ EXCEPT ![a] = SortedByKey([k \in 1..Len(@) |-> <<left_x(@[k]), @[k]>>])]

\* one pass of the loop of group_by_lines; a line holds the address of its
\* list of items
PlaceItemIn(st, it, tol) ==
    LET Place(y, k) ==
            IF k = 0
            THEN [heap  |-> py_new(st.heap, <<it>>),
                  lines |-> Append(st.lines, [y |-> y, y_vals |-> <<y>>, items |-> Len(st.heap) + 1])]
            ELSE [heap  |-> py_append(st.heap, st.lines[k].items, it),
                  lines |-> [st.lines EXCEPT ![k] =
                                [y      |-> Median(Append(st.lines[k].y_vals, y)),
                                 y_vals |-> Append(st.lines[k].y_vals, y),
                                 items  |-> st.lines[k].items]]]
    IN  Place(mid_y(it), FirstFit(st.lines, mid_y(it), tol))

RECURSIVE PlaceAllIn(_, _, _, _)
PlaceAllIn(st, sorted, k, tol) ==
    IF k = 0 THEN st ELSE PlaceItemIn(PlaceAllIn(st, sorted, k - 1, tol), sorted[k], tol)

\* the final loop: every line's list is sorted where it lies
RECURSIVE SortLinesIn(_, _, _)
SortLinesIn(heap_, lines_, k) ==
    IF k = 0 THEN heap_ ELSE sort_by_left_x(SortLinesIn(heap_, lines_, k - 1), lines_[k].items)

SortedLinesIn(st) == [heap |-> SortLinesIn(st.heap, st.lines, Len(st.lines)), lines |-> st.lines]

\* the loops of group_by_lines over the sorted copy, the newest object of h
GroupSorted(h, tol) ==
    SortedLinesIn(PlaceAllIn([heap |-> h, lines |-> <<>>], h[Len(h)], Len(h[Len(h)]), tol))

\* group_by_lines(items, page_h) with items at address a: the objects after
\* the call and the lines returned
group_by_lines_in(heap_, a, height) ==
    IF heap_[a] = <<>> THEN [heap |-> heap_, lines |-> <<>>]
    ELSE GroupSorted(sorted_by_mid_y(heap_, a), y_tol(height))

\* the lines with their lists of items read from the objects
LinesOf(st) ==
    [k \in 1..Len(st.lines) |->
        [y |-> st.lines[k].y, y_vals |-> st.lines[k].y_vals, items |-> st.heap[st.lines[k].items]]]

\* collect_right_bounded: the list collected is a new object
CollectedRightIn(st, anchor_rect, page_w) == py_new(st.heap, RightOfAnchor(LinesOf(st), anchor_rect, page_w))

collect_right_bounded_in(heap_, a, anchor_rect, page_w, height) ==
    CollectedRightIn(group_by_lines_in(heap_, a, height), anchor_rect, page_w)

\* collect_below_same_column: out is a new object
CollectedBelowIn(st, anchor_rect, page_w) == py_new(st.heap, BelowInLines(LinesOf(st), anchor_rect, page_w))

collect_below_same_column_in(heap_, a, anchor_rect, page_w, height) ==
    CollectedBelowIn(group_by_lines_in(heap_, a, height), anchor_rect, page_w)

\* yes_no_from_near_text: nothing but the lines is built from the items
yes_no_from_near_text_in(heap_, a, height) == group_by_lines_in(heap_, a, height).heap

\* close.sort(...) when close has two boxes or more; close is the newest object
SortCloseIn(h) == IF Len(h[Len(h)]) >= 2 THEN sort_by_left_x(h, Len(h)) ELSE h

\* bool_from_checkboxes_near with the checkboxes at address b: close is a new
\* list, filled from the boxes and sorted where it lies
bool_from_checkboxes_near_in(heap_, b, anchor_rect) ==
    IF anchor_rect = <<>> THEN heap_
    ELSE SortCloseIn(py_new(heap_, CloseBoxes(anchor_rect, heap_[b])))

\* the checkbox rule at the anchor of a field, when the anchor is found
BoxesNearIn(h, it, b) ==
    IF it = None THEN h ELSE bool_from_checkboxes_near_in(h, b, rect_from_bbox(it.bbox))

\* a result dict and its list of members are new objects; the dict holds the
\* address of the list
NewResult(h, fields) ==
    py_new(py_new(h, fields.other_members), [fields EXCEPT !.other_members = Len(h) + 1])

\* extract_page_fields with the items at address a and the checkboxes at b
extract_page_fields_in(heap_, a, b, page_meta) ==
    NewResult(BoxesNearIn(BoxesNearIn(group_by_lines_in(heap_, a, PageHeight(page_meta)).heap,
                                      find_anchor_item(heap_[a], ANCHORS["scheduled_tribe"]), b),
                          find_anchor_item(heap_[a], ANCHORS["otfd"]), b),
              extract_page_fields(page_meta, heap_[a], M2Page(heap_[b], <<>>)))

\* the loop over a page's members: merged[k].append(mm) on the list at ml
RECURSIVE UnionIn(_, _, _, _)
UnionIn(h, ml, new, k) ==
    IF k > Len(new) THEN h
    ELSE IF \E j \in 1..Len(h[ml]) : MemberKey(h[ml][j]) = MemberKey(new[k])
    THEN UnionIn(h, ml, new, k + 1)
    ELSE UnionIn(py_append(h, ml, new[k]), ml, new, k + 1)

\* merged[k] = pick(merged[k], f.get(k)) for the dict at m and the page at p
PickIn(h, m, p) ==
    [h EXCEPT ![m] = [k \in DOMAIN EmptyFields |->
                         IF k = "other_members" THEN @[k] ELSE pick(@[k], h[p][k])]]

\* one pass of the merge loop for the page result at address p
MergePageIn(h, m, p) == PickIn(UnionIn(h, h[m].other_members, h[h[p].other_members], 1), m, p)

RECURSIVE MergeAllIn(_, _, _, _)
MergeAllIn(h, m, pages_, k) ==
    IF k = 0 THEN h ELSE MergePageIn(MergeAllIn(h, m, pages_, k - 1), m, pages_[k])

\* the exclusivity rule on the dict at m
ExclusiveIn(h, m) == [h EXCEPT ![m] = MergedExclusive(@)]

\* the merge of process_document: merged and its list of members are new
\* objects, the newest of h
MergeInto(h, pages_) == ExclusiveIn(MergeAllIn(h, Len(h), pages_, Len(pages_)), Len(h))

merge_in(heap_, pages_) == MergeInto(NewResult(heap_, EmptyFields), pages_)

\* ------------------------------------------------------------------------
\* The calls as a state machine
\* ------------------------------------------------------------------------

MaxFrameItems == 3

MaxFrameBoxes == 2

MaxFramePages == 2

\* the tokens of a page in the order the OCR gives them, which is not the
\* reading order
FramePool ==
    << Item(t_Yes, 90, 100, 30, 10, 10), Item(t_a, 90, 30, 30, 10, 10), LabelAt(t_st_label, 1),
       Item(t_No, 90, 30, 0, 10, 10), Item(t_a, 90, 0, 0, 10, 10), Item(t_x, 90, 0, 60, 10, 10) >>

\* the checkboxes right of the scheduled-tribe label, the right one first
FrameBoxPool == << Checkbox(70, 30, 10, 10, FALSE, None), Checkbox(40, 30, 10, 10, TRUE, None) >>

\* the addresses of items and of the checkboxes of m2_page
ItemsAt == 1

BoxesAt == 2

\* the rectangle of the scheduled-tribe label
FrameAnchor == rect_from_bbox(LabelAt(t_st_label, 1).bbox)

FrameMeta == [page_number |-> 1, width |-> 200, height |-> 100]

FrameInit ==
    /\ heap = << <<>>, <<>> >>
    /\ frame_in = <<>>
    /\ frame_pages = <<>>
    /\ frame_pc = "input"
    /\ DocIdle /\ LinesIdle /\ BoxIdle /\ CutIdle /\ AnchorIdle /\ PersonIdle /\ AreaIdle /\ PageIdle /\ DedupeIdle /\ NearIdle /\ RunIdle

\* the OCR adds a token to the list it builds
OcrFrameItem ==
    /\ frame_pc = "input"
    /\ frame_pages = <<>>
    /\ Len(heap[ItemsAt]) < MaxFrameItems
    /\ \E i \in After(FramePool, heap[ItemsAt]) : heap' = py_append(heap, ItemsAt, FramePool[i])
    /\ UNCHANGED <<frame_in, frame_pages, frame_pc>>
    /\ UNCHANGED NotFrame

\* the detector adds a checkbox to the list it builds
DetectFrameBox ==
    /\ frame_pc = "input"
    /\ frame_pages = <<>>
    /\ Len(heap[BoxesAt]) < MaxFrameBoxes
    /\ \E i \in After(FrameBoxPool, heap[BoxesAt]) : heap' = py_append(heap, BoxesAt, FrameBoxPool[i])
    /\ UNCHANGED <<frame_in, frame_pages, frame_pc>>
    /\ UNCHANGED NotFrame

\* group_by_lines(items, page_h)
CallGroupByLines ==
    /\ frame_pc = "input"
    /\ frame_pages = <<>>
    /\ heap' = group_by_lines_in(heap, ItemsAt, FrameMeta.height).heap
    /\ frame_in' = heap
    /\ frame_pc' = "group_by_lines"
    /\ UNCHANGED frame_pages
    /\ UNCHANGED NotFrame

\* collect_right_bounded(items, anchor_rect, page_w, page_h)
CallCollectRight ==
    /\ frame_pc = "input"
    /\ frame_pages = <<>>
    /\ heap' = collect_right_bounded_in(heap, ItemsAt, FrameAnchor, FrameMeta.width, FrameMeta.height)
    /\ frame_in' = heap
    /\ frame_pc' = "collect_right_bounded"
    /\ UNCHANGED frame_pages
    /\ UNCHANGED NotFrame

\* collect_below_same_column(items, anchor_rect, page_w, page_h)
CallCollectBelow ==
    /\ frame_pc = "input"
    /\ frame_pages = <<>>
    /\ heap' = collect_below_same_column_in(heap, ItemsAt, FrameAnchor, FrameMeta.width, FrameMeta.height)
    /\ frame_in' = heap
    /\ frame_pc' = "collect_below_same_column"
    /\ UNCHANGED frame_pages
    /\ UNCHANGED NotFrame

\* yes_no_from_near_text(items, anchor_rect, page_w, page_h)
CallYesNo ==
    /\ frame_pc = "input"
    /\ frame_pages = <<>>
    /\ heap' = yes_no_from_near_text_in(heap, ItemsAt, FrameMeta.height)
    /\ frame_in' = heap
    /\ frame_pc' = "yes_no_from_near_text"
    /\ UNCHANGED frame_pages
    /\ UNCHANGED NotFrame

\* bool_from_checkboxes_near(anchor_rect, m2_page)
CallBoolFromCheckboxes ==
    /\ frame_pc = "input"
    /\ frame_pages = <<>>
    /\ heap' = bool_from_checkboxes_near_in(heap, BoxesAt, FrameAnchor)
    /\ frame_in' = heap
    /\ frame_pc' = "bool_from_checkboxes_near"
    /\ UNCHANGED frame_pages
    /\ UNCHANGED NotFrame

\* extract_page_fields(page_meta, items, m2_page)
CallExtractPageFields ==
    /\ frame_pc = "input"
    /\ frame_pages = <<>>
    /\ heap' = extract_page_fields_in(heap, ItemsAt, BoxesAt, FrameMeta)
    /\ frame_in' = heap
    /\ frame_pc' = "extract_page_fields"
    /\ UNCHANGED frame_pages
    /\ UNCHANGED NotFrame

\* process_document has the result of one more page in pages
KeepPageResult ==
    /\ frame_pc = "input"
    /\ heap[ItemsAt] = <<>> /\ heap[BoxesAt] = <<>>
    /\ Len(frame_pages) < MaxFramePages
    /\ \E i \in 1..Len(PageCatalogue) : \E f \in {CatalogueFields[i]} : heap' = NewResult(heap, f)
    /\ frame_pages' = Append(frame_pages, Len(heap) + 2)
    /\ UNCHANGED <<frame_in, frame_pc>>
    /\ UNCHANGED NotFrame

\* the merge across the pages
CallMerge ==
    /\ frame_pc = "input"
    /\ frame_pages # <<>>
    /\ heap' = merge_in(heap, frame_pages)
    /\ frame_in' = heap
    /\ frame_pc' = "merge"
    /\ UNCHANGED frame_pages
    /\ UNCHANGED NotFrame

FrameNext ==
    \/ OcrFrameItem \/ DetectFrameBox \/ KeepPageResult
    \/ CallGroupByLines \/ CallCollectRight \/ CallCollectBelow \/ CallYesNo
    \/ CallBoolFromCheckboxes \/ CallExtractPageFields \/ CallMerge

SpecFrame == FrameInit /\ [][FrameNext]_vars

\* C20: after a call of group_by_lines, of a collection function, of the
\* checkbox rule, of extract_page_fields or of the merge, every object that
\* was there when the call began -- the list of tokens, the list of
\* checkboxes, the page results and their lists of members -- is as it was:
\* same length, same order, same entries.
C20_Frame ==
    frame_pc # "input" =>
        \A a \in 1..Len(frame_in) : heap[a] = frame_in[a]

\* C20: group_by_lines was called with tokens that were not in the order of
\* their lines, it built new objects, and the list of tokens is as it was
C20_Witness ==
    /\ frame_pc = "group_by_lines"
    /\ frame_in[ItemsAt] # ByMidY(frame_in[ItemsAt])
    /\ Len(heap) > Len(frame_in)
    /\ heap[ItemsAt] = frame_in[ItemsAt]

\* C20: the merge appended members of the pages to the merged list, and the
\* page results are as they were
C20_WitnessMerge ==
    /\ frame_pc = "merge"
    /\ Len(frame_pages) = 2
    /\ Len(heap[heap[Len(heap)].other_members]) >= 2
    /\ \A k \in 1..Len(frame_pages) : heap[frame_pages[k]] = frame_in[frame_pages[k]]

\* C20: extract_page_fields sorted the checkboxes near the anchor in a list of
\* its own, and the checkboxes of m2_page are in the order they had
C20_WitnessBoxes ==
    /\ frame_pc = "extract_page_fields"
    /\ Len(frame_in[BoxesAt]) = 2
    /\ find_anchor_item(frame_in[ItemsAt], ANCHORS["scheduled_tribe"]) # None
    /\ heap[Len(heap) - 2] = <<frame_in[BoxesAt][2], frame_in[BoxesAt][1]>>
    /\ heap[BoxesAt] = frame_in[BoxesAt]

\* C20: the objects built by the calls hold what the functions return: the
\* lines of group_by_lines, the list collected, the fields of the page, the
\* merged record
C20_SameResults ==
    /\ frame_pc = "collect_right_bounded" =>
          heap[Len(heap)] = collect_right_bounded(frame_in[ItemsAt], FrameAnchor,
                                                  FrameMeta.width, FrameMeta.height)
    /\ frame_pc = "collect_below_same_column" =>
          heap[Len(heap)] = collect_below_same_column(frame_in[ItemsAt], FrameAnchor,
                                                      FrameMeta.width, FrameMeta.height)
    /\ frame_pc = "extract_page_fields" =>
          [heap[Len(heap)] EXCEPT !.other_members = heap[@]]
              = extract_page_fields(FrameMeta, frame_in[ItemsAt], M2Page(frame_in[BoxesAt], <<>>))

\* ------------------------------------------------------------------------
\* process_document over pages with and without marks of a signature
\* ------------------------------------------------------------------------

t_glyph == <<"[","X","]">>

t_sig_inline ==
    <<"S","i","g","n","a","t","u","r","e"," ","o","f"," ","c","l","a","i","m","a","n","t",":"," ","x">>

t_sig_colon == <<"S","i","g","n","a","t","u","r","e",":">>

t_sig_word == <<"S","i","g","n","a","t","u","r","e">>

t_design == <<"d","e","s","i","g","n","a","t","u","r","e",":","x">>

\* a page image with its OCR items and the signature regions detected on it
SignedImage(items_, sigs) ==
    [items |-> items_, width |-> 200, height |-> 100,
     m2_page |-> [checkboxes |-> <<>>, signatures |-> sigs, stamps |-> <<>>]]

\* pages without and with a signature region, and with texts that hold a
\* checked glyph, an inline signature, a signature label with nothing after
\* the colon, the bare word, and a longer word that ends in "signature"
SignCatalogue ==
    << SignedImage(<<>>, <<>>),
       SignedImage(<<>>, <<Signature>>),
       SignedImage(<<LabelAt(t_village_label, 0), ValueAt(t_x, 1, 0)>>, <<Signature>>),
       SignedImage(<<LabelAt(t_village_label, 0), ValueAt(t_x, 1, 0)>>, <<>>),
       SignedImage(<<LabelAt(t_sig_word, 3), ValueAt(t_glyph, 1, 3)>>, <<>>),
       SignedImage(<<LabelAt(t_sig_inline, 3)>>, <<>>),
       SignedImage(<<LabelAt(t_sig_colon, 3)>>, <<>>),
       SignedImage(<<LabelAt(t_sig_word, 3), ValueAt(t_x, 1, 3)>>, <<>>),
       SignedImage(<<LabelAt(t_design, 3)>>, <<>>) >>

SignFields == [i \in 1..Len(SignCatalogue) |-> ExtractImage(SignCatalogue[i], 1)]

\* one pass of the page loop: the next image is read and its fields extracted
ProcessSignedPage ==
    /\ doc_pc = "pages"
    /\ Len(pages) < MaxPages
    /\ \E i \in 1..Len(SignCatalogue) :
          pages' = Append(pages, [page_number |-> Len(pages) + 1,
                                  image       |-> i,
                                  fields      |-> SignFields[i]])
    /\ UNCHANGED <<merged, doc_pc, merge_idx>>
    /\ UNCHANGED NotDoc

SignNext == ProcessSignedPage \/ StartMerge \/ MergeNextPage \/ FinishMerge

SpecSign == DocInit /\ [][SignNext]_vars

\* the text holds "[", a checked glyph and "]" with nothing but white space
\* between them
HasCheckedGlyph(text_) ==
    \E i \in 1..Len(text_) : \E g \in (i + 1)..Len(text_) : \E j \in (g + 1)..Len(text_) :
        /\ text_[i] = "[" /\ text_[j] = "]"
        /\ text_[g] \in {"x", "check", "heavycheck"}
        /\ \A k \in ((i + 1)..(j - 1)) \ {g} : text_[k] \in WS

\* the text holds the word "signature" at the start of a word, a colon after
\* it with no other colon and no line feed before it, and after the colon a
\* character that is not white space, with only white space between
HasInlineSignature(text_) ==
    \E i \in 1..(Len(text_) - Len(w_signature) + 1) :
        /\ SubSeq(text_, i, i + Len(w_signature) - 1) = w_signature
        /\ ~IsWordAt(text_, i - 1)
        /\ \E c \in (i + Len(w_signature))..Len(text_) : \E n \in (c + 1)..Len(text_) :
              /\ text_[c] = ":"
              /\ \A k \in (i + Len(w_signature))..(c - 1) : text_[k] \notin {":", "\n"}
              /\ text_[n] \notin WS
              /\ \A k \in (c + 1)..(n - 1) : text_[k] \in WS

\* the normalized text of a page
PageTextOf(img) == normalize(Join([k \in 1..Len(img.items) |-> img.items[k].text], <<"\n">>))

\* the value the rule of the claim gives for a page image
SignatureRule(img) ==
    IF img.m2_page.signatures # <<>> THEN Bool(TRUE)
    ELSE IF HasCheckedGlyph(PageTextOf(img)) \/ HasInlineSignature(PageTextOf(img)) THEN Bool(TRUE)
    ELSE None

SignRules == [i \in 1..Len(SignCatalogue) |-> SignatureRule(SignCatalogue[i])]

\* C21: signature_present is never false. On a page it is true when a
\* signature region was detected, whatever the text, else true when the text
\* of the page holds a checked glyph or an inline signature, else null. In
\* the merged record it is true when some page merged so far has true, else
\* null, and at the end it is true iff some page of the document has true.
C21_SignatureNeverFalse ==
    /\ \A k \in 1..Len(pages) :
          /\ pages[k].fields.signature_present = SignRules[pages[k].image]
          /\ pages[k].fields.signature_present # Bool(FALSE)
    /\ merged.signature_present # Bool(FALSE)
    /\ doc_pc \in {"merge", "done"} =>
          merged.signature_present =
              IF \E k \in 1..(merge_idx - 1) : pages[k].fields.signature_present = Bool(TRUE)
              THEN Bool(TRUE) ELSE None
    /\ doc_pc = "done" =>
          (merged.signature_present = Bool(TRUE)
              <=> \E k \in 1..Len(pages) : pages[k].fields.signature_present = Bool(TRUE))

\* C21: the document is merged; its first page has no mark of a signature,
\* a later page has a signature region and a text without a mark, and the
\* merged value is true
C21_Witness ==
    /\ doc_pc = "done"
    /\ Len(pages) >= 2
    /\ pages[1].fields.signature_present = None
    /\ \E k \in 2..Len(pages) :
          /\ SignCatalogue[pages[k].image].m2_page.signatures # <<>>
          /\ SignCatalogue[pages[k].image].items # <<>>
          /\ pages[k].fields.signature_present = Bool(TRUE)
    /\ merged.signature_present = Bool(TRUE)

\* C21: a page is true by its text alone: no region, and a checked glyph or
\* an inline signature in the text
C21_WitnessText ==
    /\ doc_pc = "done"
    /\ \E k \in 1..Len(pages) : \E l \in 1..Len(pages) :
          /\ SignCatalogue[pages[k].image].m2_page.signatures = <<>>
          /\ HasCheckedGlyph(PageTextOf(SignCatalogue[pages[k].image]))
          /\ SignCatalogue[pages[l].image].m2_page.signatures = <<>>
          /\ HasInlineSignature(PageTextOf(SignCatalogue[pages[l].image]))
          /\ pages[k].fields.signature_present = Bool(TRUE)
          /\ pages[l].fields.signature_present = Bool(TRUE)

\* C21: every page of the document is without a mark, one of them holds the
\* word "signature", and the merged value is null
C21_WitnessNull ==
    /\ doc_pc = "done"
    /\ Len(pages) >= 2
    /\ \E k \in 1..Len(pages) : SignCatalogue[pages[k].image].items # <<>>
    /\ \A k \in 1..Len(pages) : pages[k].fields.signature_present = None
    /\ merged.signature_present = None

\* ------------------------------------------------------------------------
\* main: one run over a folder, and the files it writes under outdir
\* ------------------------------------------------------------------------

\* the code point of a character of a file name
Ord(c) ==
    IF c = "." THEN 46
    ELSE IF c = "/" THEN 47
    ELSE IF c \in Digit THEN 48 + CHOOSE d \in 0..9 : ToString(d) = c
    ELSE IF c \in Upper THEN 64 + CHOOSE k \in 1..Len(UpperSeq) : UpperSeq[k] = c
    ELSE IF c = "_" THEN 95
    ELSE 96 + CHOOSE k \in 1..Len(LowerSeq) : LowerSeq[k] = c

\* s < t for Python strings
RECURSIVE StrLess(_, _)
StrLess(s, t) ==
    IF t = <<>> THEN FALSE
    ELSE IF s = <<>> THEN TRUE
    ELSE IF Head(s) = Head(t) THEN StrLess(Tail(s), Tail(t))
    ELSE Ord(Head(s)) < Ord(Head(t))

\* sorted(...) of a set of strings
RECURSIVE SortedStrings(_)
SortedStrings(S) ==
    IF S = {} THEN <<>>
    ELSE LET Rest(m) == <<m>> \o SortedStrings(S \ {m})
         IN  Rest(CHOOSE m \in S : \A y \in S \ {m} : StrLess(m, y))

lower(s) == [k \in 1..Len(s) |-> ToLower(s[k])]

endswith(s, suffix) ==
    Len(s) >= Len(suffix) /\ SubSeq(s, Len(s) - Len(suffix) + 1, Len(s)) = suffix

\* the last place of character c in s, 0 when it is not there
LastIndexOf(s, c) ==
    IF \E i \in 1..Len(s) : s[i] = c THEN SetMax({i \in 1..Len(s) : s[i] = c}) ELSE 0

\* os.path.basename
basename(p) == SubSeq(p, LastIndexOf(p, "/") + 1, Len(p))

\* os.path.splitext: the split is at the last dot of the last component,
\* unless only dots stand before it there
splitext(p) ==
    LET SplitAt(sep, dot) ==
            IF dot > sep /\ \E i \in (sep + 1)..(dot - 1) : p[i] # "."
            THEN <<SubSeq(p, 1, dot - 1), SubSeq(p, dot, Len(p))>>
            ELSE <<p, <<>>>>
    IN  SplitAt(LastIndexOf(p, "/"), LastIndexOf(p, "."))

x_png == <<".","p","n","g">>

x_pdf == <<".","p","d","f">>

x_json == <<".","j","s","o","n">>

\* the extensions main takes from a folder
InputExtensions ==
    { x_png, <<".","j","p","g">>, <<".","j","p","e","g">>, <<".","t","i","f">>,
      <<".","t","i","f","f">>, <<".","b","m","p">>, x_pdf }

\* os.path.join(args.input, f) for the folder "in"
InFolder(f) == <<"i","n","/">> \o f

\* inputs of main for a folder
ListInputs(folder) ==
    SortedStrings({InFolder(f) : f \in {g \in folder : \E x \in InputExtensions : endswith(lower(g), x)}})

\* base_name of process_document
base_name(input_path) == splitext(basename(input_path))[1]

\* the page tag "p<i>" of load_images_from_path
PageTag(i) == <<"p", ToString(i)>>

\* the paths of the files, below outdir
OverlayPath(base, tag) == <<"o","v","e","r","l","a","y","s","/">> \o base \o <<"_">> \o tag \o x_png

OcrJsonPath(base, tag) ==
    <<"p","a","g","e","s","/">> \o base \o <<"_">> \o tag \o <<"_","o","c","r">> \o x_json

StructuredPath(base) ==
    <<"d","o","c","s","/">> \o base \o <<"_","s","t","r","u","c","t","u","r","e","d">> \o x_json

ManifestPath == <<"m","a","n","i","f","e","s","t">> \o x_json

\* open(path, "w") and the write: the file at path is now the one written
\* for owner
WriteFile(fs, path, owner) ==
    [q \in DOMAIN fs \cup {path} |-> IF q = path THEN owner ELSE fs[q]]

\* the overlay and the OCR JSON of pages 1..n of an input
RECURSIVE WritePages(_, _, _)
WritePages(fs, input_path, n) ==
    IF n = 0 THEN fs
    ELSE WriteFile(WriteFile(WritePages(fs, input_path, n - 1),
                             OverlayPath(base_name(input_path), PageTag(n)), input_path),
                   OcrJsonPath(base_name(input_path), PageTag(n)), input_path)

\* the entry of pages for page i
PageEntry(input_path, i) ==
    [page_number   |-> i,
     ocr_json_path |-> OcrJsonPath(base_name(input_path), PageTag(i)),
     overlay_path  |-> OverlayPath(base_name(input_path), PageTag(i))]

\* doc_blob without the fields extracted
DocBlob(input_path, n) ==
    [input |-> input_path, page_count |-> n, pages |-> [i \in 1..n |-> PageEntry(input_path, i)]]

\* the files after process_document has run to its end on an input of n pages
process_document_files(fs, input_path, n) ==
    WriteFile(WritePages(fs, input_path, n), StructuredPath(base_name(input_path)), input_path)

MaxPdfPages == 2

\* the number of pages load_images_from_path can give for a path
PageCounts(input_path) ==
    IF lower(splitext(input_path)[2]) = x_pdf THEN 1..MaxPdfPages ELSE {1}

\* the names a file of the input folder can have
NamePool ==
    { <<"a">> \o x_pdf, <<"a">> \o x_png, <<"b">> \o x_png, <<"a",".","b">> \o x_png,
      <<"b",".","P","D","F">>, <<"a",".","t","x","t">> }

RunInit ==
    /\ run_folder \in SUBSET NamePool
    /\ run_inputs = <<>>
    /\ run_idx = 1
    /\ run_docs = <<>>
    /\ run_fs = <<>>
    /\ run_pc = "list"
    /\ DocIdle /\ LinesIdle /\ BoxIdle /\ CutIdle /\ AnchorIdle /\ PersonIdle /\ AreaIdle /\ PageIdle /\ DedupeIdle /\ NearIdle /\ FrameIdle

\* main lists the folder
ListFolder ==
    /\ run_pc = "list"
    /\ run_inputs' = ListInputs(run_folder)
    /\ run_pc' = "loop"
    /\ UNCHANGED <<run_folder, run_idx, run_docs, run_fs>>
    /\ UNCHANGED NotRun

\* process_document runs to its end on the next input
ProcessDocument ==
    /\ run_pc = "loop"
    /\ run_idx <= Len(run_inputs)
    /\ \E n \in PageCounts(run_inputs[run_idx]) :
          /\ run_fs' = process_document_files(run_fs, run_inputs[run_idx], n)
          /\ run_docs' = Append(run_docs, DocBlob(run_inputs[run_idx], n))
    /\ run_idx' = run_idx + 1
    /\ UNCHANGED <<run_folder, run_inputs, run_pc>>
    /\ UNCHANGED NotRun

\* process_document raises on the next input after j of its pages are
\* written; main reports the error and goes on
ProcessRaises ==
    /\ run_pc = "loop"
    /\ run_idx <= Len(run_inputs)
    /\ \E n \in PageCounts(run_inputs[run_idx]) : \E j \in 0..(n - 1) :
          run_fs' = WritePages(run_fs, run_inputs[run_idx], j)
    /\ run_idx' = run_idx + 1
    /\ UNCHANGED <<run_folder, run_inputs, run_docs, run_pc>>
    /\ UNCHANGED NotRun

\* main writes the manifest
WriteManifest ==
    /\ run_pc = "loop"
    /\ run_idx > Len(run_inputs)
    /\ run_fs' = WriteFile(run_fs, ManifestPath, ManifestPath)
    /\ run_pc' = "done"
    /\ UNCHANGED <<run_folder, run_inputs, run_idx, run_docs>>
    /\ UNCHANGED NotRun

RunNext == ListFolder \/ ProcessDocument \/ ProcessRaises \/ WriteManifest

SpecRun == RunInit /\ [][RunNext]_vars

\* the paths of the files written for a document of docs
ArtifactsOf(d) ==
    {StructuredPath(base_name(d.input))}
        \cup {d.pages[i].ocr_json_path : i \in 1..Len(d.pages)}
        \cup {d.pages[i].overlay_path : i \in 1..Len(d.pages)}

\* C22: within a run over a folder, every file written for a document that
\* was processed is still the one written for that document: no later input
\* has overwritten its structured JSON, its per-page OCR JSON or its overlays.
C22_OwnArtifacts ==
    \A k \in 1..Len(run_docs) :
        \A path \in ArtifactsOf(run_docs[k]) : run_fs[path] = run_docs[k].input

\* the inputs processed so far have base names that differ from each other
DistinctBaseNames ==
    \A i, j \in 1..(run_idx - 1) :
        (i # j /\ i <= Len(run_inputs) /\ j <= Len(run_inputs))
            => base_name(run_inputs[i]) # base_name(run_inputs[j])

\* C22: when no two inputs share a base name, every document keeps its files
C22_DistinctBasesKeep == DistinctBaseNames => C22_OwnArtifacts

\* C22: two documents of different base names are processed and each has its
\* own files
C22_WitnessDistinct ==
    /\ run_pc = "done"
    /\ Len(run_docs) >= 2
    /\ DistinctBaseNames
    /\ C22_OwnArtifacts

=============================================================================
